---------------------------- MODULE Spec2Model ----------------------------
(***************************************************************************)
(* Model of the article pipeline of src/app.py (Netflix-WBD Transaction    *)
(* Monitor v7.2): relevance gate, similarity engine, deduplicator,         *)
(* ingestion merger and the cached load_all_data run, executed by the      *)
(* sessions of the dashboard against one shared archive sheet.             *)
(*                                                                         *)
(* Text is modelled by TLA+ strings; a character is a string of length 1.  *)
(* Python's None is the reserved string None, which no input contains.     *)
(***************************************************************************)
EXTENDS Integers, Sequences, FiniteSets, TLC

(***************************************************************************)
(* Text primitives (Python str operations used by the source)              *)
(***************************************************************************)
None == "<None>"

\* Python truthiness of an Optional[str]: None and "" are falsy.
Truthy(x) == x # None /\ x # ""

\* (x or '')
OrEmpty(x) == IF Truthy(x) THEN x ELSE ""

\* str(x) as used by f-strings: None prints as "None".
Str(x) == IF x = None THEN "None" ELSE x

CharAt(s, i) == SubSeq(s, i, i)

UpperChars == "ABCDEFGHIJKLMNOPQRSTUVWXYZ"
LowerChars == "abcdefghijklmnopqrstuvwxyz"
DigitChars == "0123456789"

CharsOf(s) == {CharAt(s, i) : i \in 1..Len(s)}

LowerChar(c) ==
    IF c \in CharsOf(UpperChars)
    THEN CharAt(LowerChars, CHOOSE i \in 1..Len(UpperChars) : CharAt(UpperChars, i) = c)
    ELSE c

RECURSIVE Lower(_)
\* str.lower() on ASCII text
Lower(s) == IF s = "" THEN "" ELSE LowerChar(Head(s)) \o Lower(Tail(s))

\* w occurs in s starting at character position i (1-based)
OccursAt(w, s, i) == i >= 1 /\ i + Len(w) - 1 <= Len(s) /\ SubSeq(s, i, i + Len(w) - 1) = w

\* Python "w in s"
Contains(s, w) == \E i \in 1..(Len(s) - Len(w) + 1) : OccursAt(w, s, i)

\* str.find(c-set, start): first position >= from holding a character of cs, 0 if none
FindFirst(s, cs, from) ==
    LET hits == {i \in from..Len(s) : CharAt(s, i) \in cs}
    IN  IF hits = {} THEN 0 ELSE CHOOSE i \in hits : \A j \in hits : i <= j

\* str.rfind(c): last position holding c, 0 if none
FindLast(s, c) ==
    LET hits == {i \in 1..Len(s) : CharAt(s, i) = c}
    IN  IF hits = {} THEN 0 ELSE CHOOSE i \in hits : \A j \in hits : i >= j

RECURSIVE StripLeft(_, _)
StripLeft(s, c) == IF s # "" /\ Head(s) = c THEN StripLeft(Tail(s), c) ELSE s

RECURSIVE StripRight(_, _)
StripRight(s, c) ==
    IF s # "" /\ CharAt(s, Len(s)) = c THEN StripRight(SubSeq(s, 1, Len(s) - 1), c) ELSE s

\* str.strip(c)
Strip(s, c) == StripRight(StripLeft(s, c), c)

\* regex classes \w and \s on ASCII text
WordChars == CharsOf(UpperChars) \cup CharsOf(LowerChars) \cup CharsOf(DigitChars) \cup {"_"}
SpaceChars == {" "}

RECURSIVE KeepChars(_, _)
\* re.sub of every character outside cs by ''
KeepChars(s, cs) ==
    IF s = "" THEN ""
    ELSE (IF Head(s) \in cs THEN Head(s) ELSE "") \o KeepChars(Tail(s), cs)

(***************************************************************************)
(* difflib.SequenceMatcher(None, a, b).ratio()                             *)
(* The strings of the model are shorter than 200 characters, so the        *)
(* autojunk heuristic of difflib never applies.                            *)
(***************************************************************************)
\* length of the common run of a from i and b from j inside a[..ahi], b[..bhi]
RECURSIVE RunLen(_, _, _, _, _, _)
RunLen(a, b, i, j, ahi, bhi) ==
    IF i <= ahi /\ j <= bhi /\ CharAt(a, i) = CharAt(b, j)
    THEN 1 + RunLen(a, b, i + 1, j + 1, ahi, bhi)
    ELSE 0

\* find_longest_match(alo, ahi, blo, bhi) on the inclusive ranges alo..ahi, blo..bhi:
\* the longest block, of those the one starting earliest in a, of those earliest in b
find_longest_match(a, b, alo, ahi, blo, bhi) ==
    LET cand == {<<i, j>> \in (alo..ahi) \X (blo..bhi) : CharAt(a, i) = CharAt(b, j)}
    IN  IF cand = {} THEN <<alo, blo, 0>>
        ELSE LET best == CHOOSE p \in cand :
                     \A q \in cand :
                        LET kp == RunLen(a, b, p[1], p[2], ahi, bhi)
                            kq == RunLen(a, b, q[1], q[2], ahi, bhi)
                        IN  \/ kp > kq
                            \/ kp = kq /\ p[1] < q[1]
                            \/ kp = kq /\ p[1] = q[1] /\ p[2] <= q[2]
             IN  <<best[1], best[2], RunLen(a, b, best[1], best[2], ahi, bhi)>>

\* sum of the sizes of get_matching_blocks(): the longest match, then recursively
\* the pieces to its left and to its right
RECURSIVE MatchCount(_, _, _, _, _, _)
MatchCount(a, b, alo, ahi, blo, bhi) ==
    IF alo > ahi \/ blo > bhi THEN 0
    ELSE LET m == find_longest_match(a, b, alo, ahi, blo, bhi)
         IN  IF m[3] = 0 THEN 0
             ELSE m[3] + MatchCount(a, b, alo, m[1] - 1, blo, m[2] - 1)
                       + MatchCount(a, b, m[1] + m[3], ahi, m[2] + m[3], bhi)

\* ratio() = 2.0 * matches / (len(a) + len(b)), 1.0 when both are empty, kept as the
\* exact fraction <<numerator, denominator>>
Ratio(a, b) ==
    IF Len(a) + Len(b) = 0 THEN <<1, 1>>
    ELSE <<2 * MatchCount(a, b, 1, Len(a), 1, Len(b)), Len(a) + Len(b)>>

\* r > num/den for a fraction r (the thresholds 0.75 = 3/4 and 0.85 = 17/20)
RatioGT(r, num, den) == r[1] * den > num * r[2]

(***************************************************************************)
(* urllib.parse.urlparse(url).path                                         *)
(***************************************************************************)
SchemeChars == CharsOf(UpperChars) \cup CharsOf(LowerChars) \cup CharsOf(DigitChars) \cup {"+", "-", "."}
Letters == CharsOf(UpperChars) \cup CharsOf(LowerChars)

\* schemes for which urlparse splits ";params" off the path (urllib.parse.uses_params)
UsesParams == {"", "ftp", "hdl", "prospero", "http", "imap", "https", "shttp",
               "rtsp", "rtspu", "sip", "sips", "mms", "sftp", "tel"}

\* the part of s before / from position i on (i = 0: s has no such position)
Before(s, i) == IF i = 0 THEN s ELSE SubSeq(s, 1, i - 1)
From(s, i) == SubSeq(s, i, Len(s))

\* urlsplit: <<scheme, rest after "scheme:">>
SplitScheme(url) ==
    LET i == FindFirst(url, {":"}, 1)
    IN  IF i > 1 /\ Head(url) \in Letters /\ \A k \in 1..(i - 1) : CharAt(url, k) \in SchemeChars
        THEN <<Lower(SubSeq(url, 1, i - 1)), From(url, i + 1)>>
        ELSE <<"", url>>

\* urlsplit: <<netloc, rest>> of the text after the scheme
SplitNetloc(rest) ==
    IF SubSeq(rest, 1, 2) = "//"
    THEN LET e == FindFirst(rest, {"/", "?", "#"}, 3)
         IN  IF e = 0 THEN <<From(rest, 3), "">> ELSE <<SubSeq(rest, 3, e - 1), From(rest, e)>>
    ELSE <<"", rest>>

\* urlparse's _splitparams: the path without the ";params" of its last segment
SplitParams(path) ==
    LET slash == FindLast(path, "/")
        i == FindFirst(path, {";"}, IF slash = 0 THEN 1 ELSE slash)
    IN  Before(path, i)

\* urlparse(url).path, or the value Raises when urlsplit raises ValueError
Raises == "<ValueError>"
UrlParsePath(url0) ==
    LET url == StripLeft(url0, " ")
        sc == SplitScheme(url)
        nl == SplitNetloc(sc[2])
        netloc == nl[1]
        noFrag == Before(nl[2], FindFirst(nl[2], {"#"}, 1))
        noQuery == Before(noFrag, FindFirst(noFrag, {"?"}, 1))
    IN  IF Contains(netloc, "[") # Contains(netloc, "]") THEN Raises
        ELSE IF sc[1] \in UsesParams /\ Contains(noQuery, ";") THEN SplitParams(noQuery)
        ELSE noQuery

(***************************************************************************)
(* Similarity engine                                                       *)
(***************************************************************************)
get_url_path(url) ==
    IF ~Truthy(url) THEN ""
    ELSE LET path == UrlParsePath(url)
         IN  IF path = Raises THEN "" ELSE Strip(Lower(path), "/")

title_similarity(t1, t2) ==
    IF ~Truthy(t1) \/ ~Truthy(t2) THEN <<0, 1>>
    ELSE Ratio(KeepChars(Lower(t1), WordChars \cup SpaceChars),
               KeepChars(Lower(t2), WordChars \cup SpaceChars))

\* the ratio of two paths, 0.0 unless both are non-empty
PathRatio(path1, path2) ==
    IF path1 = "" \/ path2 = "" THEN <<0, 1>> ELSE Ratio(path1, path2)

url_path_similarity(url1, url2) == PathRatio(get_url_path(url1), get_url_path(url2))

(***************************************************************************)
(* Regular expressions of the source's pattern lists (re.search).  The     *)
(* patterns are lower case and are searched in lower-cased text, so        *)
(* re.IGNORECASE changes nothing.                                          *)
(***************************************************************************)
Lit(w) == [t |-> "lit", w |-> w]
\* .{0,n}
Gap(n) == [t |-> "gap", n |-> n]
\* (x1|x2|...)
Alt(xs) == [t |-> "alt", xs |-> xs]
\* x1 x2 ...
Cat(xs) == [t |-> "cat", xs |-> xs]
\* \b
WordBoundary == [t |-> "wb"]

IsWordAt(s, i) == i >= 1 /\ i <= Len(s) /\ CharAt(s, i) \in WordChars

RECURSIVE MatchEnds(_, _, _)
RECURSIVE CatEnds(_, _, _, _)
\* the positions just after a match of re that starts at position i of s
MatchEnds(re, s, i) ==
    CASE re.t = "lit" -> IF OccursAt(re.w, s, i) THEN {i + Len(re.w)} ELSE {}
      [] re.t = "gap" -> {p \in i..(i + re.n) : p <= Len(s) + 1 /\ ~Contains(SubSeq(s, i, p - 1), "\n")}
      [] re.t = "wb"  -> IF IsWordAt(s, i - 1) # IsWordAt(s, i) THEN {i} ELSE {}
      [] re.t = "alt" -> UNION {MatchEnds(re.xs[k], s, i) : k \in 1..Len(re.xs)}
      [] re.t = "cat" -> CatEnds(re.xs, 1, s, {i})

\* the positions after xs[k], xs[k+1], ... matched in sequence from a position of starts
CatEnds(xs, k, s, starts) ==
    IF k > Len(xs) \/ starts = {} THEN starts
    ELSE CatEnds(xs, k + 1, s, UNION {MatchEnds(xs[k], s, i) : i \in starts})

re_search(re, s) == \E i \in 1..(Len(s) + 1) : MatchEnds(re, s, i) # {}

(***************************************************************************)
(* Source configuration                                                    *)
(***************************************************************************)
BLOCKED_SOURCES == <<
    "wikipedia", "reddit", "twitter", "x.com", "facebook", "tiktok", "pinterest", "quora" >>

IRRELEVANT_PATTERNS == <<
    Lit("stranger things"),
    Lit("harry potter"),
    Lit("marvel movie"),
    Lit("dc universe"),
    Lit("dceu"),
    Lit("premiere"),
    Lit("trailer release"),
    Lit("casting news"),
    Lit("james gunn"),
    Lit("zack snyder"),
    Lit("chris nolan"),
    Lit("best movies of"),
    Lit("best shows of"),
    Lit("most anticipated"),
    Cat(<<WordBoundary, Lit("ranking"), WordBoundary>>),
    Cat(<<WordBoundary, Lit("ranked"), WordBoundary>>),
    Lit("lgbtq"),
    Lit("coming to netflix"),
    Lit("leaving netflix"),
    Lit("what to watch"),
    Cat(<<WordBoundary, Lit("binge"), WordBoundary>>),
    Lit("review:"),
    Lit("demogorgon"),
    Lit("upside down"),
    Lit("top gun"),
    Lit("speed racer"),
    Lit("purple rain"),
    Lit("babylon 5"),
    Lit("dstv"),
    Lit("canal+"),
    Lit("multichoice"),
    Lit("social media ban"),
    Lit("bundling deal"),
    Lit("bundle deal"),
    Lit("distribution deal"),
    Lit("licensing deal"),
    Lit("rtl+"),
    Lit("signs deal with"),
    Lit("streaming bundle"),
    Lit("grammy"),
    Lit("emmy"),
    Lit("oscar"),
    Lit("golden globe"),
    Lit("game of thrones"),
    Lit("house of the dragon") >>

TIER1_SOURCES == <<
    "reuters", "bloomberg", "wsj", "apnews", "nytimes", "washingtonpost", "variety",
    "deadline", "hollywoodreporter", "cnbc", "cnn", "bbc", "latimes", "usatoday", "nypost",
    "foxbusiness", "nbcnews", "abcnews", "cbsnews", "globeandmail", "cbc", "nationalpost",
    "financialpost", "bnnbloomberg", "globalnews", "ctv", "prnewswire", "businesswire",
    "sec", "doj", "ftc", "justice", "europa", "ec.europa", "competitionbureau", "cma",
    "gov.uk" >>

TIER2_SOURCES == <<
    "seekingalpha", "benzinga", "thestreet", "marketwatch", "barrons", "techcrunch",
    "theverge", "engadget", "fastcompany", "forbes", "insider", "guardian", "independent",
    "telegraph", "euronews", "indiewire", "screendaily", "vulture", "rollingstone",
    "avclub", "cision", "gamespot", "ign", "insidermonkey", "moneycontrol" >>

TRUSTED_SOURCE_PATTERNS == TIER1_SOURCES \o TIER2_SOURCES \o <<
    "netflix", "wbd", "paramount", "ftc", "doj", "livemint", "economictimes" >>

MUST_CONTAIN_DEAL_CONTEXT == <<
    Cat(<<Lit("netflix"), Gap(50), Alt(<<Lit("acqui"), Lit("merg"), Lit("buy"), Lit("bid"), Lit("purchase")>>), Gap(30), Lit("warner")>>),
    Cat(<<Lit("warner"), Gap(50), Alt(<<Lit("acqui"), Lit("merg"), Lit("bid"), Lit("takeover"), Lit("purchase")>>), Gap(30), Lit("netflix")>>),
    Cat(<<Lit("wbd"), Gap(50), Alt(<<Lit("netflix"), Lit("merger"), Lit("acquisition")>>)>>),
    Cat(<<Lit("netflix"), Gap(30), Lit("wbd")>>),
    Lit("netflix buys wbd"),
    Lit("netflix buys warner"),
    Lit("netflix acquires warner"),
    Lit("netflix acquires wbd"),
    Cat(<<Lit("netflix"), Gap(50), Lit("zaslav")>>),
    Cat(<<Lit("zaslav"), Gap(30), Alt(<<Lit("netflix"), Lit("merger"), Lit("deal"), Lit("acquisition")>>)>>),
    Cat(<<Lit("sarandos"), Gap(30), Alt(<<Lit("warner"), Lit("wbd"), Lit("acquisition"), Lit("merger")>>)>>),
    Cat(<<Lit("netflix"), Gap(50), Lit("sarandos"), Gap(30), Lit("warner")>>),
    Cat(<<Lit("paramount"), Gap(50), Alt(<<Lit("hostile"), Lit("tender"), Lit("takeover")>>), Gap(30), Alt(<<Lit("warner"), Lit("wbd")>>)>>),
    Cat(<<Lit("skydance"), Gap(50), Alt(<<Lit("bid"), Lit("offer")>>), Gap(30), Alt(<<Lit("warner"), Lit("wbd")>>)>>),
    Cat(<<Lit("ellison"), Gap(30), Alt(<<Lit("warner"), Lit("wbd"), Lit("bid"), Lit("offer")>>)>>),
    Cat(<<Alt(<<Lit("ftc"), Lit("doj"), Lit("antitrust")>>), Gap(50), Alt(<<Cat(<<Lit("netflix"), Gap(30), Lit("warner")>>), Cat(<<Lit("warner"), Gap(30), Lit("netflix")>>)>>)>>),
    Cat(<<Alt(<<Lit("european commission"), Lit("ec")>>), Gap(30), Alt(<<Lit("netflix"), Lit("warner")>>), Gap(30), Alt(<<Lit("merger"), Lit("review")>>)>>),
    Cat(<<Alt(<<Lit("cma"), Lit("competition")>>), Gap(30), Alt(<<Lit("netflix"), Lit("warner")>>), Gap(30), Alt(<<Lit("review"), Lit("merger")>>)>>),
    Cat(<<Alt(<<Lit("competition bureau"), Lit("canada")>>), Gap(30), Alt(<<Lit("netflix"), Lit("warner")>>)>>),
    Cat(<<Lit("hsr"), Gap(20), Alt(<<Lit("netflix"), Lit("warner")>>)>>),
    Cat(<<Lit("hart-scott-rodino"), Gap(30), Alt(<<Lit("netflix"), Lit("warner")>>)>>),
    Cat(<<Lit("$82"), Gap(20), Lit("billion")>>),
    Cat(<<Lit("$83"), Gap(20), Lit("billion")>>),
    Cat(<<Lit("$108"), Gap(20), Lit("billion")>>),
    Cat(<<Lit("$30"), Gap(10), Alt(<<Lit("per share"), Lit("share")>>)>>),
    Cat(<<Lit("tender offer"), Gap(30), Alt(<<Lit("warner"), Lit("wbd"), Lit("paramount")>>)>>),
    Cat(<<Lit("bidding war"), Gap(30), Alt(<<Lit("warner"), Lit("wbd")>>)>>),
    Cat(<<Lit("hostile"), Gap(30), Alt(<<Lit("bid"), Lit("takeover")>>), Gap(30), Alt(<<Lit("warner"), Lit("wbd")>>)>>),
    Cat(<<Alt(<<Lit("hbo"), Lit("hbo max")>>), Gap(30), Alt(<<Cat(<<Lit("netflix"), Gap(20), Lit("acquisition")>>), Lit("sold to netflix")>>)>>),
    Cat(<<Lit("max streaming"), Gap(30), Alt(<<Lit("netflix"), Lit("acquisition"), Lit("merger")>>)>>) >>

(***************************************************************************)
(* Pattern classifier.  An article is a record with the six raw fields     *)
(* title, link, pubDate, description, source_id, image_url.                *)
(***************************************************************************)
\* any(w in s for w in words)
AnyIn(words, s) == \E k \in 1..Len(words) : Contains(s, words[k])

\* a faulty tier, which tries the tier-2 names first
get_source_tier_tier2_first(source_id) ==
    IF ~Truthy(source_id) THEN 3
    ELSE IF AnyIn(TIER2_SOURCES, Lower(source_id)) THEN 2
    ELSE IF AnyIn(TIER1_SOURCES, Lower(source_id)) THEN 1
    ELSE 3

get_source_tier(source_id) ==
    IF ~Truthy(source_id) THEN 3
    ELSE LET source_lower == Lower(source_id)
         IN  IF AnyIn(TIER1_SOURCES, source_lower) THEN 1
             ELSE IF AnyIn(TIER2_SOURCES, source_lower) THEN 2
             ELSE 3

is_trusted_source(source_id) ==
    IF ~Truthy(source_id) THEN FALSE
    ELSE AnyIn(TRUSTED_SOURCE_PATTERNS, Lower(source_id))

REGULATORY_WORDS == <<
    "ftc", "doj", "antitrust", "regulatory", "commission", "review", "approval",
    "justice department", "sec filing", "hsr", "hart-scott-rodino", "european commission",
    "competition bureau", "merger review", "unlawful", "cma",
    "competition and markets authority", "uk regulator" >>
BIDS_WORDS == <<"paramount", "skydance", "hostile", "tender", "competing", "bidding war">>
ANALYSIS_WORDS == <<"analyst", "concern", "impact", "opinion", "consolidation">>

\* a faulty classification, which also searches the link of the article
categorize_article_with_link(article) ==
    LET combined == Lower(Str(article.title) \o " " \o Str(article.description)
                          \o " " \o Str(article.link))
    IN  IF AnyIn(REGULATORY_WORDS, combined) THEN "regulatory"
        ELSE IF AnyIn(BIDS_WORDS, combined) THEN "bids"
        ELSE IF AnyIn(ANALYSIS_WORDS, combined) THEN "analysis"
        ELSE "deal"

\* a faulty classification, which looks for the bid keywords first
categorize_article_bids_first(article) ==
    LET combined == Lower(Str(article.title) \o " " \o Str(article.description))
    IN  IF AnyIn(BIDS_WORDS, combined) THEN "bids"
        ELSE IF AnyIn(REGULATORY_WORDS, combined) THEN "regulatory"
        ELSE IF AnyIn(ANALYSIS_WORDS, combined) THEN "analysis"
        ELSE "deal"

categorize_article(article) ==
    LET combined == Lower(Str(article.title) \o " " \o Str(article.description))
    IN  IF AnyIn(REGULATORY_WORDS, combined) THEN "regulatory"
        ELSE IF AnyIn(BIDS_WORDS, combined) THEN "bids"
        ELSE IF AnyIn(ANALYSIS_WORDS, combined) THEN "analysis"
        ELSE "deal"

IMPORTANCE_KEYWORDS == <<
    "announce", "official", "reject", "approve", "board unanimously", "confirms", "closes" >>

is_high_importance(article) ==
    LET source == Lower(OrEmpty(article.source_id))
        title == Lower(OrEmpty(article.title))
    IN  IF get_source_tier(source) = 1 THEN TRUE
        ELSE AnyIn(IMPORTANCE_KEYWORDS, title)

ACQUISITION_WORDS == <<
    "acquire", "acquisition", "merger", "takeover", "bid", "hostile", "tender offer",
    "buyout", "purchase agreement", "deal" >>

\* a faulty gate, which looks for the deal context before the irrelevance patterns
is_relevant_article_deal_first(article) ==
    LET source == Lower(OrEmpty(article.source_id))
        combined == Lower(OrEmpty(article.title)) \o " " \o Lower(OrEmpty(article.description))
    IN  IF AnyIn(BLOCKED_SOURCES, source) THEN FALSE
        ELSE IF ~is_trusted_source(source) THEN FALSE
        ELSE IF \E k \in 1..Len(MUST_CONTAIN_DEAL_CONTEXT) :
                    re_search(MUST_CONTAIN_DEAL_CONTEXT[k], combined)
             THEN TRUE
        ELSE IF \E k \in 1..Len(IRRELEVANT_PATTERNS) : re_search(IRRELEVANT_PATTERNS[k], combined)
             THEN FALSE
        ELSE /\ Contains(combined, "netflix")
             /\ Contains(combined, "warner") \/ Contains(combined, "wbd")
             /\ AnyIn(ACQUISITION_WORDS, combined)

is_relevant_article(article) ==
    LET source == Lower(OrEmpty(article.source_id))
        title == Lower(OrEmpty(article.title))
        description == Lower(OrEmpty(article.description))
        combined == title \o " " \o description
        has_netflix == Contains(combined, "netflix")
        has_warner == Contains(combined, "warner") \/ Contains(combined, "wbd")
        has_acquisition == AnyIn(ACQUISITION_WORDS, combined)
    IN  IF AnyIn(BLOCKED_SOURCES, source) THEN FALSE
        ELSE IF ~is_trusted_source(source) THEN FALSE
        ELSE IF \E k \in 1..Len(IRRELEVANT_PATTERNS) : re_search(IRRELEVANT_PATTERNS[k], combined)
             THEN FALSE
        ELSE IF \E k \in 1..Len(MUST_CONTAIN_DEAL_CONTEXT) :
                    re_search(MUST_CONTAIN_DEAL_CONTEXT[k], combined)
             THEN TRUE
        ELSE has_netflix /\ has_warner /\ has_acquisition

(***************************************************************************)
(* Inputs of the model                                                     *)
(***************************************************************************)
\* the dashboard sessions (browser tabs) served by the one Streamlit process
Sessions == {"s1", "s2"}
NoOne == "nobody"

\* number of live search queries of fetch_all_news_parallel that the model runs
\* (the source lists five)
NumQueries == 2
Queries == 1..NumQueries

\* pipeline runs (uncached executions of load_all_data) started in one behaviour
MaxRuns == 2

\* longest list handed to deduplicate_articles when it is called on its own
MaxListLen == 3

Article(title, link, pubDate, description, source_id) ==
    [title |-> title, link |-> link, pubDate |-> pubDate, description |-> description,
     source_id |-> source_id, image_url |-> None]

\* what the live search provider may return: a relevant tier-1 article, the same
\* link under a rewritten headline, an off-topic article of an unknown source, a
\* relevant article dated with a time zone, and a record without a link
FA1 == Article("Netflix buys WBD", "https://a.com/?p=1", "2025-12-05 10:00:00", None, "cnn")
FA2 == Article("Zaslav backs merger", "https://a.com/?p=1", "2025-12-05 10:00:00", None, "cnn")
FB == Article("Emmy night recap", "https://b.com/n/2", "2025-12-04", "", "blog")
FC == Article("Paramount hostile bid for Warner", "https://c.com/n/3",
              "2025-12-06T09:00:00Z", None, "ign")
FN == Article("Netflix WBD deal", None, None, None, "cnn")

\* a response of the search provider to one query: the "results" of a 200/success
\* response, or a failure
Responses ==
    {[kind |-> "success", results |-> r] : r \in {<<FN, FA1, FB>>, <<FA2>>, <<FC>>}}
    \cup {[kind |-> k, results |-> <<>>] :
              k \in {"http_error", "timeout", "transport_error", "malformed"}}

Fields == <<"title", "link", "pubDate", "description", "source_id", "image_url">>

(***************************************************************************)
(* The archive sheet (gspread).  A row holds the six cells of a record;    *)
(* a None written by append_rows is an empty cell, which get_all_records   *)
(* reads back as ''.  No text of the model is a number, so the             *)
(* numericising of cells by get_all_records never applies.                 *)
(***************************************************************************)
\* rows = [[a.get(field, '') for field in fields] ...], as the sheet stores one row
ToRow(a) == [f \in {Fields[i] : i \in 1..Len(Fields)} |-> IF a[f] = None THEN "" ELSE a[f]]

\* a faulty append, which puts the rows on top of the sheet
insert_rows_on_top(sheet, rows) == rows \o sheet

\* worksheet.append_rows(rows): the rows go behind the last row of the sheet
append_rows(sheet, rows) == sheet \o rows

\* worksheet.get_all_records()
get_all_records(sheet) == sheet

\* how opening and reading the archive sheet may end
ReadOutcomes == {"ok", "no_credentials", "open_failed", "read_failed"}

\* the sheet behind the archive when the first session starts: rows under the header
\* row title, link, pubDate, description, source_id, image_url.  The sheet is
\* editable outside the dashboard, so it may hold a link twice.
InitialArchives == {<<ToRow(FA1)>>, <<ToRow(FA1), ToRow(FA2)>>}

(***************************************************************************)
(* Tables of the pure functions over the texts of the model.  TLC computes *)
(* a table once; the pipeline below reads the tables where the source      *)
(* calls the functions.                                                    *)
(***************************************************************************)
FetchedArticles == {FN, FA1, FA2, FB, FC}

\* the articles of the lists handed to deduplicate_articles when it is called on its
\* own: a tier-1 article, its copy from a tier-3 source, a tier-2 article under nearly
\* the same headline, a tier-1 article under another headline at the same URL path,
\* an article without a headline, and an unrelated tier-3 article without a link;
\* the tier-2 article is the newest and the unrelated one the oldest
D1 == Article("Netflix buys WBD", "https://a.com/n/netflix-buys-wbd", "2025-12-05", None, "cnn")
D3 == Article("Netflix buys WBD", "https://a.com/n/netflix-buys-wbd", "2025-12-05", None, "blog")
D2 == Article("Netflix buys WBD!", "https://c.com/x", "2025-12-06", None, "ign")
D4 == Article("Zaslav backs merger", "https://b.com/n/netflix-buys-wbd", "2025-12-05", None, "bbc")
D5 == Article("", "https://d.com/y", "2025-12-05", None, "cnn")
D6 == Article("Emmy night recap", None, "2025-12-04", None, "blog")
DedupPool == {D1, D2, D3, D4, D5, D6}

KnownArticles == FetchedArticles \cup {ToRow(a) : a \in FetchedArticles} \cup DedupPool
KnownTitles == {a.title : a \in KnownArticles}
KnownLinks == {a.link : a \in KnownArticles}

get_source_tier_of == [src \in {a.source_id : a \in KnownArticles} |-> get_source_tier(src)]
is_relevant_article_of == [a \in KnownArticles |-> is_relevant_article(a)]
title_similarity_of ==
    [t1 \in KnownTitles |-> [t2 \in KnownTitles |-> title_similarity(t1, t2)]]
url_path_similarity_of ==
    [u1 \in KnownLinks |-> [u2 \in KnownLinks |-> url_path_similarity(u1, u2)]]

(***************************************************************************)
(* sorted(..., key=...) / list.sort(key=..., reverse=...): Python's sort   *)
(* is stable, also under reverse=True.  precedes[i, j] says that the key   *)
(* of seq[i] sorts strictly before the key of seq[j].                      *)
(***************************************************************************)
\* the stable sort of seq: the element at index i lands behind the elements that come
\* strictly before it and behind the earlier elements it does not come strictly before
StableSort(seq, precedes) ==
    LET Rank(i) == Cardinality({j \in 1..Len(seq) :
                        \/ precedes[j, i]
                        \/ j < i /\ ~precedes[i, j]})
    IN  [p \in 1..Len(seq) |-> seq[CHOOSE i \in 1..Len(seq) : Rank(i) = p - 1]]

(***************************************************************************)
(* Deduplicator                                                            *)
(***************************************************************************)
\* thresholds of deduplicate_articles, as fractions: 0.75 and 0.85
TitleThreshold == <<3, 4>>
UrlThreshold == <<17, 20>>

\* a faulty key, which sorts the sources of least trust first
TierPrecedesWorstFirst(a, b) ==
    get_source_tier_of[a.source_id] > get_source_tier_of[b.source_id]

TierPrecedes(a, b) == get_source_tier_of[a.source_id] < get_source_tier_of[b.source_id]

\* a faulty sort, which leaves the articles in the order of the input
Unsorted(articles) == articles

\* sorted(articles, key=lambda a: get_source_tier(a.get('source_id', '')))
SortedByTier(articles) ==
    StableSort(articles, [i, j \in 1..Len(articles) |-> TierPrecedes(articles[i], articles[j])])

\* unique holds the articles kept so far: seen_titles are their titles and seen_urls
\* their non-empty links, in the same order
\* a faulty check, which compares the title with the title kept last only
is_title_duplicate_of_last(title, unique) ==
    /\ unique # <<>>
    /\ RatioGT(title_similarity_of[title][unique[Len(unique)].title],
               TitleThreshold[1], TitleThreshold[2])

is_title_duplicate(title, unique) ==
    \E i \in 1..Len(unique) :
        RatioGT(title_similarity_of[title][unique[i].title],
                TitleThreshold[1], TitleThreshold[2])

\* a faulty check, which takes no URL for a duplicate
is_url_duplicate_never(url, unique) == FALSE

is_url_duplicate(url, unique) ==
    \E i \in 1..Len(unique) :
        /\ Truthy(unique[i].link)
        /\ RatioGT(url_path_similarity_of[url][unique[i].link],
                   UrlThreshold[1], UrlThreshold[2])

\* a faulty loop, which puts an article it keeps in front of those kept before
RECURSIVE DedupLoopPrepending(_, _, _)
DedupLoopPrepending(sorted_articles, k, unique) ==
    IF k > Len(sorted_articles) THEN unique
    ELSE IF ~Truthy(sorted_articles[k].title)
         THEN DedupLoopPrepending(sorted_articles, k + 1, unique)
    ELSE IF /\ ~is_title_duplicate(sorted_articles[k].title, unique)
            /\ ~is_url_duplicate(sorted_articles[k].link, unique)
         THEN DedupLoopPrepending(sorted_articles, k + 1, <<sorted_articles[k]>> \o unique)
    ELSE DedupLoopPrepending(sorted_articles, k + 1, unique)

\* the loop of deduplicate_articles over sorted_articles[k..]
RECURSIVE DedupLoop(_, _, _)
DedupLoop(sorted_articles, k, unique) ==
    IF k > Len(sorted_articles) THEN unique
    ELSE IF ~Truthy(sorted_articles[k].title) THEN DedupLoop(sorted_articles, k + 1, unique)
    ELSE IF /\ ~is_title_duplicate(sorted_articles[k].title, unique)
            /\ ~is_url_duplicate(sorted_articles[k].link, unique)
         THEN DedupLoop(sorted_articles, k + 1, Append(unique, sorted_articles[k]))
    ELSE DedupLoop(sorted_articles, k + 1, unique)

deduplicate_articles(articles) ==
    IF articles = <<>> THEN <<>>
    ELSE DedupLoop(SortedByTier(articles), 1, <<>>)

(***************************************************************************)
(* parse_pubdate.  A datetime is [aware, key]: key = <<Y, M, D, h, m, s>>  *)
(* and aware says whether it carries a time zone.  The date texts of the   *)
(* model are ISO texts "YYYY-MM-DD", "YYYY-MM-DD HH:MM:SS" and             *)
(* "YYYY-MM-DDTHH:MM:SS", with an optional UTC suffix "Z" or "+00:00",     *)
(* which dateutil, datetime.fromisoformat and strptime read alike; any     *)
(* other text of the model holds no date.                                  *)
(***************************************************************************)
IsDigits(s) == s # "" /\ \A i \in 1..Len(s) : CharAt(s, i) \in CharsOf(DigitChars)

DigitVal(c) == (CHOOSE i \in 1..Len(DigitChars) : CharAt(DigitChars, i) = c) - 1

RECURSIVE ToInt(_)
ToInt(s) == IF s = "" THEN 0 ELSE 10 * ToInt(SubSeq(s, 1, Len(s) - 1)) + DigitVal(CharAt(s, Len(s)))

IsLeap(y) == (y % 4 = 0 /\ y % 100 # 0) \/ y % 400 = 0
DaysIn(y, m) == IF m = 2 THEN (IF IsLeap(y) THEN 29 ELSE 28)
                ELSE IF m \in {4, 6, 9, 11} THEN 30 ELSE 31

\* the datetime of an ISO text, [ok |-> FALSE] when the text is not one
ParseIso(str) ==
    LET ys == SubSeq(str, 1, 4)
        ms == SubSeq(str, 6, 7)
        ds == SubSeq(str, 9, 10)
        hs == SubSeq(str, 12, 13)
        mins == SubSeq(str, 15, 16)
        ss == SubSeq(str, 18, 19)
        zone == From(str, 20)
        dateOk == /\ Len(str) >= 10
                  /\ IsDigits(ys) /\ IsDigits(ms) /\ IsDigits(ds)
                  /\ CharAt(str, 5) = "-" /\ CharAt(str, 8) = "-"
                  /\ ToInt(ys) >= 1 /\ ToInt(ms) \in 1..12
                  /\ ToInt(ds) \in 1..DaysIn(ToInt(ys), ToInt(ms))
        timeOk == /\ Len(str) >= 19
                  /\ CharAt(str, 11) \in {" ", "T"}
                  /\ IsDigits(hs) /\ IsDigits(mins) /\ IsDigits(ss)
                  /\ CharAt(str, 14) = ":" /\ CharAt(str, 17) = ":"
                  /\ ToInt(hs) < 24 /\ ToInt(mins) < 60 /\ ToInt(ss) < 60
                  /\ zone \in {"", "Z", "+00:00"}
    IN  IF dateOk /\ Len(str) = 10
        THEN [ok |-> TRUE, aware |-> FALSE, key |-> <<ToInt(ys), ToInt(ms), ToInt(ds), 0, 0, 0>>]
        ELSE IF dateOk /\ timeOk
        THEN [ok |-> TRUE, aware |-> zone # "",
              key |-> <<ToInt(ys), ToInt(ms), ToInt(ds), ToInt(hs), ToInt(mins), ToInt(ss)>>]
        ELSE [ok |-> FALSE]

\* datetime.min
datetime_min == [aware |-> FALSE, key |-> <<1, 1, 1, 0, 0, 0>>]

parse_pubdate(date_str) ==
    IF ~Truthy(date_str) THEN datetime_min
    ELSE LET r == ParseIso(date_str)
         IN  IF r.ok THEN [aware |-> r.aware, key |-> r.key] ELSE datetime_min

parse_pubdate_of == [d \in {a.pubDate : a \in KnownArticles} |-> parse_pubdate(d)]

RECURSIVE KeyLess(_, _, _)
\* lexicographic < of two keys from position i on
KeyLess(k1, k2, i) ==
    IF i > Len(k1) THEN FALSE
    ELSE k1[i] < k2[i] \/ (k1[i] = k2[i] /\ KeyLess(k1, k2, i + 1))

\* d1 < d2 for two datetimes of the same kind
DatetimeLess(d1, d2) == KeyLess(d1.key, d2.key, 1)

\* comparing an offset-naive with an offset-aware datetime raises TypeError; a sort
\* of two or more keys compares keys of both kinds as soon as both kinds occur
SortRaises(articles) ==
    \E i, j \in 1..Len(articles) :
        parse_pubdate_of[articles[i].pubDate].aware # parse_pubdate_of[articles[j].pubDate].aware

\* newest first: x comes strictly before y when key(x) > key(y)
NewerFirst(a, b) == DatetimeLess(parse_pubdate_of[b.pubDate], parse_pubdate_of[a.pubDate])

\* unique.sort(key=lambda x: parse_pubdate(x.get('pubDate')), reverse=True)
SortedNewestFirst(unique) ==
    StableSort(unique, [i, j \in 1..Len(unique) |-> NewerFirst(unique[i], unique[j])])

(***************************************************************************)
(* Live fetch                                                              *)
(***************************************************************************)
\* fetch_news_query: the articles of a successful response, [] on any failure
fetch_news_query(response) ==
    IF response.kind = "success" THEN response.results ELSE <<>>

\* a faulty loop, in which an article with a link seen before takes the place of the
\* article kept for that link
RECURSIVE AddResultsKeepingLast(_, _, _)
AddResultsKeepingLast(collected, results, k) ==
    IF k > Len(results) THEN collected
    ELSE IF ~Truthy(results[k].link) THEN AddResultsKeepingLast(collected, results, k + 1)
    ELSE IF \E i \in 1..Len(collected) : collected[i].link = results[k].link
         THEN AddResultsKeepingLast(
                  [i \in 1..Len(collected) |->
                      IF collected[i].link = results[k].link THEN results[k] ELSE collected[i]],
                  results, k + 1)
    ELSE AddResultsKeepingLast(Append(collected, results[k]), results, k + 1)

\* the loop of fetch_all_news_parallel over one completed future: the articles with
\* a link not seen yet are added
RECURSIVE AddResults(_, _, _)
AddResults(collected, results, k) ==
    IF k > Len(results) THEN collected
    ELSE LET link == results[k].link
             seen_links == {collected[i].link : i \in 1..Len(collected)}
         IN  IF Truthy(link) /\ link \notin seen_links
             THEN AddResults(Append(collected, results[k]), results, k + 1)
             ELSE AddResults(collected, results, k + 1)

\* a faulty loop, which stops collecting at the first query that failed
RECURSIVE CollectCompletedAborting(_, _, _, _)
CollectCompletedAborting(responses, order, n, collected) ==
    IF n > Len(order) \/ responses[order[n]].kind # "success" THEN collected
    ELSE CollectCompletedAborting(responses, order, n + 1,
                                  AddResults(collected, responses[order[n]].results, 1))

\* the loop of fetch_all_news_parallel over the futures from the n-th yielded on
RECURSIVE CollectCompleted(_, _, _, _)
CollectCompleted(responses, order, n, collected) ==
    IF n > Len(order) THEN collected
    ELSE CollectCompleted(responses, order, n + 1,
                          AddResults(collected, fetch_news_query(responses[order[n]]), 1))

\* fetch_all_news_parallel: responses[q] answers query q, order is the order in which
\* as_completed yields the futures
fetch_all_news_parallel(responses, order) == CollectCompleted(responses, order, 1, <<>>)

CompletionOrders == {o \in [Queries -> Queries] : \A i, j \in Queries : o[i] = o[j] => i = j}

\* The orders in which as_completed may yield the futures when the workers complete in
\* the order completed and the first ready of them have completed before as_completed
\* looks at the futures: it collects those into a set and yields them in the order of
\* the set, and yields the others in the order in which they complete.
YieldOrders(completed, ready) ==
    {o \in CompletionOrders :
        /\ {o[i] : i \in 1..ready} = {completed[i] : i \in 1..ready}
        /\ \A i \in (ready + 1)..NumQueries : o[i] = completed[i]}

\* a faulty worker, which sends its request a second time when the first one failed
AttemptsWithRetry(response) == IF response.kind = "success" THEN 1 ELSE 2

\* the calls of requests.get that fetch_news_query makes for its query: one, however
\* the provider answers
Attempts(response) == 1

\* what a call of fetch_all_news_parallel may leave: the list it returns, the
\* number of its queries that failed and the number of requests sent for each
\* query, for every way the provider may answer the
\* queries and every order in which the answers may arrive
FetchOutcomes ==
    {[fresh |-> fetch_all_news_parallel(responses, order),
      queries_failed |-> Cardinality({q \in Queries : responses[q].kind # "success"}),
      requests |-> [q \in Queries |-> Attempts(responses[q])]] :
        responses \in [Queries -> Responses], order \in CompletionOrders}

(***************************************************************************)
(* load_all_data, from the merge on                                        *)
(***************************************************************************)
\* a faulty set of known links, which collects the titles of the records
existing_titles(archived) == {archived[i].title : i \in {j \in 1..Len(archived) : Truthy(archived[j].title)}}

existing_links(archived) == {archived[i].link : i \in {j \in 1..Len(archived) : Truthy(archived[j].link)}}

\* a faulty selection, which keeps only the new articles that pass the relevance gate
NewRelevantArticles(archived, fresh) ==
    SelectSeq(fresh, LAMBDA a : a.link \notin existing_links(archived) /\ is_relevant_article_of[a])

NewArticles(archived, fresh) ==
    SelectSeq(fresh, LAMBDA a : a.link \notin existing_links(archived))

\* a faulty merge, which puts the new articles first
MergeNewFirst(archived, new_articles) == new_articles \o archived

\* all_articles = archived + new_articles
Merge(archived, new_articles) == archived \o new_articles

Relevant(all_articles) == SelectSeq(all_articles, LAMBDA a : is_relevant_article_of[a])

\* the loop that categorizes the articles in place
Annotate(a) ==
    [title |-> a.title, link |-> a.link, pubDate |-> a.pubDate, description |-> a.description,
     source_id |-> a.source_id, image_url |-> a.image_url,
     category |-> categorize_article(a), important |-> is_high_importance(a)]

Annotate_of == [a \in KnownArticles |-> Annotate(a)]
Annotated(articles) == [i \in 1..Len(articles) |-> Annotate_of[articles[i]]]

\* a faulty dictionary, which counts as duplicates every article that is not returned
ReturnValueMiscounted(all_articles, relevant, unique, archived, fresh, new_articles, saved_count, archive_error, api_error) ==
    [articles |-> Annotated(SortedNewestFirst(unique)),
     total_raw |-> Len(all_articles),
     filtered_out |-> Len(all_articles) - Len(relevant),
     duplicates |-> Len(all_articles) - Len(unique),
     new_count |-> Len(Relevant(new_articles)),
     archived_count |-> Len(archived),
     api_fetched |-> Len(fresh),
     saved_count |-> saved_count,
     archive_error |-> archive_error,
     api_error |-> api_error]

\* the dictionary load_all_data returns (cred_source, which only names where the
\* credentials came from, is left out)
ReturnValue(all_articles, relevant, unique, archived, fresh, new_articles, saved_count, archive_error, api_error) ==
    [articles |-> Annotated(SortedNewestFirst(unique)),
     total_raw |-> Len(all_articles),
     filtered_out |-> Len(all_articles) - Len(relevant),
     duplicates |-> Len(relevant) - Len(unique),
     new_count |-> Len(Relevant(new_articles)),
     archived_count |-> Len(archived),
     api_fetched |-> Len(fresh),
     saved_count |-> saved_count,
     archive_error |-> archive_error,
     api_error |-> api_error]

\* relevant = [a for a in all_articles if is_relevant_article(a)], then
\* unique = deduplicate_articles(relevant)
FilterAndDedup(all_articles, relevant, archived, fresh, new_articles, saved_count, archive_error, api_error) ==
    ReturnValue(all_articles, relevant, deduplicate_articles(relevant), archived, fresh,
                new_articles, saved_count, archive_error, api_error)

RunResult(all_articles, archived, fresh, new_articles, saved_count, archive_error, api_error) ==
    FilterAndDedup(all_articles, Relevant(all_articles), archived, fresh, new_articles,
                   saved_count, archive_error, api_error)

\* unique.sort(...) raises TypeError
RunRaises(all_articles) == SortRaises(deduplicate_articles(Relevant(all_articles)))

\* the data the page uses when load_all_data raised
FallbackData ==
    [articles |-> <<>>, archived_count |-> 0, filtered_out |-> 0, saved_count |-> 0,
     archive_error |-> None, api_error |-> None, raised |-> TRUE]

NoData == [articles |-> <<>>, none |-> TRUE]

(***************************************************************************)
(* State                                                                   *)
(***************************************************************************)
VARIABLES
    archive,        \* the rows of the archive sheet, oldest first
    cache,          \* the entry of st.cache_data for load_all_data, NoData when empty
    lockOwner,      \* the session computing the entry of the current cache, or NoOne
    runs,           \* pipeline runs started so far
    cache_cleared,  \* per session: st.session_state.cache_cleared is set
    pc,             \* per session: where its script stands
    read_outcome,   \* per session: how its run's opening and reading of the sheet ended
    worksheet,      \* per session, the locals of its run of load_all_data ...
    archived,
    archive_error,
    fresh,
    api_error,
    queries_failed, \* ... the number of queries of the run that ended in a failure
    requests,       \* ... the number of requests the run has sent for each query
    new_articles,
    saved_count,
    append_failed,  \* ... append_rows raised in the run
    all_articles,
    returned,       \* what the latest call of load_all_data gave its caller
    input,          \* the argument of a direct call of one of the pure functions
    output          \* the function called with input and what it returned

vars == <<archive, cache, lockOwner, runs, cache_cleared, pc, read_outcome, worksheet,
          archived, archive_error, fresh, api_error, queries_failed, requests, new_articles,
          saved_count, append_failed, all_articles, returned, input, output>>

\* the argument and the result of a direct call of a function
calls == <<input, output>>
NoInput == "<no input>"
NoOutput == [op |-> "none"]

\* the state of the dashboard
pipeline == <<archive, cache, lockOwner, runs, cache_cleared, pc, read_outcome, worksheet,
              archived, archive_error, fresh, api_error, queries_failed, requests, new_articles,
              saved_count, append_failed, all_articles, returned>>

locals == <<read_outcome, worksheet, archived, archive_error, fresh, api_error,
            queries_failed, requests, new_articles, saved_count, append_failed,
            all_articles>>

\* no request sent
NoRequests == [q \in Queries |-> 0]

\* the state of the process before the first session: nothing cached, no run started
NoRunYet ==
    /\ cache = NoData
    /\ lockOwner = NoOne
    /\ runs = 0
    /\ cache_cleared = [s \in Sessions |-> FALSE]
    /\ pc = [s \in Sessions |-> "idle"]
    /\ read_outcome = [s \in Sessions |-> "none"]
    /\ worksheet = [s \in Sessions |-> FALSE]
    /\ archived = [s \in Sessions |-> <<>>]
    /\ archive_error = [s \in Sessions |-> None]
    /\ fresh = [s \in Sessions |-> <<>>]
    /\ api_error = [s \in Sessions |-> None]
    /\ queries_failed = [s \in Sessions |-> 0]
    /\ requests = [s \in Sessions |-> NoRequests]
    /\ new_articles = [s \in Sessions |-> <<>>]
    /\ saved_count = [s \in Sessions |-> 0]
    /\ append_failed = [s \in Sessions |-> FALSE]
    /\ all_articles = [s \in Sessions |-> <<>>]
    /\ returned = NoData

Init ==
    /\ archive \in InitialArchives
    /\ NoRunYet
    /\ input = NoInput
    /\ output = NoOutput

\* a session whose script is not inside load_all_data
AtRest(s) == pc[s] = "idle"
Running(s) == ~AtRest(s)

(***************************************************************************)
(* Operations                                                              *)
(***************************************************************************)
\* the locals of load_all_data as its first lines set them
InitLocals(s) ==
    /\ read_outcome' = [read_outcome EXCEPT ![s] = "none"]
    /\ all_articles' = [all_articles EXCEPT ![s] = <<>>]
    /\ worksheet' = [worksheet EXCEPT ![s] = FALSE]
    /\ archived' = [archived EXCEPT ![s] = <<>>]
    /\ archive_error' = [archive_error EXCEPT ![s] = None]
    /\ fresh' = [fresh EXCEPT ![s] = <<>>]
    /\ api_error' = [api_error EXCEPT ![s] = None]
    /\ queries_failed' = [queries_failed EXCEPT ![s] = 0]
    /\ requests' = [requests EXCEPT ![s] = NoRequests]
    /\ new_articles' = [new_articles EXCEPT ![s] = <<>>]
    /\ saved_count' = [saved_count EXCEPT ![s] = 0]
    /\ append_failed' = [append_failed EXCEPT ![s] = FALSE]

\* load_all_data is entered on a cache miss
StartRun(s) ==
    /\ runs < MaxRuns
    /\ runs' = runs + 1
    /\ pc' = [pc EXCEPT ![s] = "load"]
    /\ lockOwner' = s
    /\ returned' = NoData
    /\ InitLocals(s)

\* The first script run of a session: the session state is initialised and
\* st.cache_data.clear() empties the cache of every session; the call of
\* load_all_data that follows is a miss.
FirstRender(s) ==
    /\ AtRest(s) /\ ~cache_cleared[s]
    /\ cache_cleared' = [cache_cleared EXCEPT ![s] = TRUE]
    /\ cache' = NoData
    /\ StartRun(s)
    /\ UNCHANGED archive
    /\ UNCHANGED calls

\* A later script run of a session (any widget interaction): load_all_data is served
\* from the cache when it holds an entry, and else is computed by the one session
\* that holds the entry's lock.
Render(s) ==
    /\ AtRest(s) /\ cache_cleared[s]
    /\ IF cache # NoData
       THEN /\ returned' = cache
            /\ UNCHANGED <<archive, cache, lockOwner, runs, cache_cleared, pc, locals>>
       ELSE /\ lockOwner = NoOne
            /\ StartRun(s)
            /\ UNCHANGED <<archive, cache, cache_cleared>>
    /\ UNCHANGED calls

\* The "Refresh Data" button: the cache is cleared and the script reruns.
Refresh(s) ==
    /\ AtRest(s) /\ cache_cleared[s]
    /\ cache' = NoData
    /\ StartRun(s)
    /\ UNCHANGED <<archive, cache_cleared>>
    /\ UNCHANGED calls

\* The entry of load_all_data is older than CACHE_TTL_DATA.
Expire ==
    /\ cache # NoData
    /\ cache' = NoData
    /\ UNCHANGED <<archive, lockOwner, runs, cache_cleared, pc, locals, returned>>
    /\ UNCHANGED calls

\* archive_error after the try block that opens and reads the sheet
ArchiveError(outcome) ==
    CASE outcome = "ok" -> None
      [] outcome = "no_credentials" -> "GCP credentials not found"
      [] outcome = "open_failed" -> "Spreadsheet not found"
      [] outcome = "read_failed" -> "Sheets API error"

\* worksheet is assigned once the sheet is open, before get_all_records is called
WorksheetSet(outcome) == outcome \in {"ok", "read_failed"}

\* load_all_data, "Load archived articles from Google Sheets"
LoadArchive(s) ==
    /\ pc[s] = "load"
    /\ \E outcome \in ReadOutcomes :
          /\ read_outcome' = [read_outcome EXCEPT ![s] = outcome]
          /\ worksheet' = [worksheet EXCEPT ![s] = WorksheetSet(outcome)]
          /\ archived' = [archived EXCEPT ![s] =
                              IF outcome = "ok" THEN get_all_records(archive) ELSE <<>>]
          /\ archive_error' = [archive_error EXCEPT ![s] = ArchiveError(outcome)]
    /\ pc' = [pc EXCEPT ![s] = "fetch"]
    /\ UNCHANGED <<archive, cache, lockOwner, runs, cache_cleared, fresh, api_error,
                   queries_failed, requests, new_articles, saved_count, append_failed,
                   all_articles,
                   returned>>
    /\ UNCHANGED calls

\* load_all_data, "Fetch fresh articles using parallel requests"
Fetch(s) ==
    /\ pc[s] = "fetch"
    /\ \/ \E outcome \in FetchOutcomes :
             /\ fresh' = [fresh EXCEPT ![s] = outcome.fresh]
             /\ queries_failed' = [queries_failed EXCEPT ![s] = outcome.queries_failed]
             /\ requests' = [requests EXCEPT ![s] = outcome.requests]
             /\ UNCHANGED api_error
       \/ \* no newsdata_key is configured: no query is made
          UNCHANGED <<fresh, queries_failed, requests, api_error>>
       \/ \* get_secret or the worker pool itself raises: the only path that sets api_error
          /\ api_error' = [api_error EXCEPT ![s] = "News API error"]
          /\ UNCHANGED <<fresh, queries_failed, requests>>
    /\ pc' = [pc EXCEPT ![s] = "merge"]
    /\ UNCHANGED <<archive, cache, lockOwner, runs, cache_cleared, read_outcome, worksheet,
                   archived, archive_error, new_articles, saved_count, append_failed,
                   all_articles, returned>>
    /\ UNCHANGED calls

\* a faulty count, which counts the new articles whether they were appended or not
CountOfNew(new, appended) == Len(new)

\* saved_count after the try block around append_rows
SavedCount(new, appended) == IF appended THEN Len(new) ELSE 0

\* faulty rows, made of the articles as the annotation loop leaves them
RowsOfAnnotated(new) == Annotated(new)

\* the rows handed to append_rows
Rows(new) == [i \in 1..Len(new) |-> ToRow(new[i])]

\* load_all_data, "Merge and save new articles"
MergeAndSave(s) ==
    /\ pc[s] = "merge"
    /\ LET new == NewArticles(archived[s], fresh[s])
       IN  /\ new_articles' = [new_articles EXCEPT ![s] = new]
           /\ all_articles' = [all_articles EXCEPT ![s] = Merge(archived[s], new)]
           /\ IF new # <<>> /\ worksheet[s]
              THEN \/ /\ archive' = append_rows(archive, Rows(new))
                      /\ saved_count' = [saved_count EXCEPT ![s] = SavedCount(new, TRUE)]
                      /\ UNCHANGED append_failed
                   \/ \* append_rows raises: "Silently handle save errors"
                      /\ append_failed' = [append_failed EXCEPT ![s] = TRUE]
                      /\ saved_count' = [saved_count EXCEPT ![s] = SavedCount(new, FALSE)]
                      /\ UNCHANGED archive
              ELSE UNCHANGED <<archive, saved_count, append_failed>>
    /\ pc' = [pc EXCEPT ![s] = "filter"]
    /\ UNCHANGED <<cache, lockOwner, runs, cache_cleared, read_outcome, worksheet,
                   archived, archive_error, fresh, api_error, queries_failed, requests,
                   returned>>
    /\ UNCHANGED calls

\* what load_all_data hands to the page: its dictionary, or FallbackData when it raised
Outcome(s) ==
    IF RunRaises(all_articles[s]) THEN FallbackData
    ELSE RunResult(all_articles[s], archived[s], fresh[s], new_articles[s], saved_count[s],
                   archive_error[s], api_error[s])

\* load_all_data, "Filter, deduplicate, and sort" to the return: st.cache_data stores
\* a returned value in the cache the call started under, and nothing when it raised
FilterAndReturn(s) ==
    /\ pc[s] = "filter"
    /\ returned' = Outcome(s)
    /\ cache' = IF lockOwner = s /\ returned' # FallbackData THEN returned' ELSE cache
    /\ lockOwner' = IF lockOwner = s THEN NoOne ELSE lockOwner
    /\ pc' = [pc EXCEPT ![s] = "idle"]
    /\ InitLocals(s)
    /\ UNCHANGED <<archive, runs, cache_cleared>>
    /\ UNCHANGED calls

Next ==
    \/ \E s \in Sessions : FirstRender(s)
    \/ \E s \in Sessions : Render(s)
    \/ \E s \in Sessions : Refresh(s)
    \/ Expire
    \/ \E s \in Sessions : LoadArchive(s)
    \/ \E s \in Sessions : Fetch(s)
    \/ \E s \in Sessions : MergeAndSave(s)
    \/ \E s \in Sessions : FilterAndReturn(s)

\* every behaviour of the sessions, overlapping runs included
Spec == Init /\ [][Next]_vars

\* the behaviours in which a run starts only when no other run is under way
NoRunUnderWay == \A t \in Sessions : AtRest(t)

NextSeq ==
    \/ \E s \in Sessions : NoRunUnderWay /\ FirstRender(s)
    \/ \E s \in Sessions : NoRunUnderWay /\ Render(s)
    \/ \E s \in Sessions : NoRunUnderWay /\ Refresh(s)
    \/ Expire
    \/ \E s \in Sessions : LoadArchive(s)
    \/ \E s \in Sessions : Fetch(s)
    \/ \E s \in Sessions : MergeAndSave(s)
    \/ \E s \in Sessions : FilterAndReturn(s)

SpecSeq == Init /\ [][NextSeq]_vars

\* the part of load_all_data that follows each part
After == [load |-> "fetch", fetch |-> "merge", merge |-> "filter", filter |-> "idle"]

\* the run of session s leaves the part of load_all_data it stands in: the steps of
\* LoadArchive(s), Fetch(s), MergeAndSave(s) and FilterAndReturn(s)
Advance(s) == Running(s) /\ pc' = [pc EXCEPT ![s] = After[pc[s]]]

\* A run that has entered load_all_data goes on: the script thread is scheduled,
\* every request of a worker ends within API_TIMEOUT_DEFAULT, the wait for a worker
\* within API_TIMEOUT_DEFAULT + 5, a call of the sheet returns or raises, and the
\* lists that the loops walk are finite.
RunsProceed == \A s \in Sessions : WF_pc(Advance(s))

\* the behaviours of the sessions in which the runs proceed
SpecLive == Init /\ [][Next]_vars /\ RunsProceed

(***************************************************************************)
(* Direct calls of the pattern classifier: one article is the argument     *)
(* and one of the functions is applied to it                               *)
(***************************************************************************)
\* headlines with a deal-context match, with a deal-context and an irrelevance match,
\* with the words of the fallback only, with regulatory and bid keywords, with an
\* analysis keyword, with importance keywords, a missing and an empty headline
ClassifierTitles == {
    "Netflix buys WBD", "Netflix buys WBD: trailer release", "Netflix Warner merger talk",
    "FTC review of Paramount hostile bid", "Analyst opinion", "Board Officially Approves",
    None, ""}

ClassifierDescriptions == {None, "", "Board confirms Netflix WBD deal", "Skydance concern"}

\* a missing and an empty source, tier-1, tier-2 (upper case) and unlisted sources, a
\* blocked source that is also listed, a source of both tier lists, and a source that
\* is trusted without being in a tier list
ClassifierSources == {None, "", "cnn", "IGN", "blog", "reddit-cnn", "cnn-ign", "netflix"}

ClassifierInputs ==
    {Article(t, "https://a.com/n/1", "2025-12-05", d, src) :
        t \in ClassifierTitles, d \in ClassifierDescriptions, src \in ClassifierSources}

\* the call of function op returns value
Returns(op, value) ==
    /\ output' = [op |-> op, value |-> value]
    /\ UNCHANGED <<input, pipeline>>

CallIsRelevantArticle ==
    input \in ClassifierInputs /\ Returns("is_relevant_article", is_relevant_article(input))

CallCategorizeArticle ==
    input \in ClassifierInputs /\ Returns("categorize_article", categorize_article(input))

CallIsHighImportance ==
    input \in ClassifierInputs /\ Returns("is_high_importance", is_high_importance(input))

CallGetSourceTier ==
    input \in ClassifierInputs /\ Returns("get_source_tier", get_source_tier(input.source_id))

\* the body of the loop of load_all_data that categorizes one article
CallAnnotate ==
    input \in ClassifierInputs /\ Returns("annotate", Annotate(input))

InitClassifier ==
    /\ archive = <<>>
    /\ NoRunYet
    /\ input \in ClassifierInputs
    /\ output = NoOutput

NextClassifier ==
    \/ CallIsRelevantArticle
    \/ CallCategorizeArticle
    \/ CallIsHighImportance
    \/ CallGetSourceTier
    \/ CallAnnotate

SpecClassifier == InitClassifier /\ [][NextClassifier]_vars

(***************************************************************************)
(* Direct calls of the deduplicator: a list of articles is the argument    *)
(***************************************************************************)
DedupInputs == UNION {[1..n -> DedupPool] : n \in 0..MaxListLen}

CallDeduplicate ==
    input \in DedupInputs /\ Returns("deduplicate_articles", deduplicate_articles(input))

\* deduplicate_articles is called on the list it returned
CallDeduplicateAgain ==
    /\ output.op = "deduplicate_articles"
    /\ Returns("deduplicate_again", deduplicate_articles(output.value))

\* the lines of load_all_data that follow its call of deduplicate_articles, on the
\* list that deduplicate_articles returned: the sort by date and the annotation
CallSortAndAnnotate ==
    /\ output.op = "deduplicate_articles"
    /\ ~SortRaises(output.value)
    /\ Returns("sort_and_annotate", Annotated(SortedNewestFirst(output.value)))

InitDedup ==
    /\ archive = <<>>
    /\ NoRunYet
    /\ input \in DedupInputs
    /\ output = NoOutput

NextDedup ==
    \/ CallDeduplicate
    \/ CallDeduplicateAgain
    \/ CallSortAndAnnotate

SpecDedup == InitDedup /\ [][NextDedup]_vars

(***************************************************************************)
(* Direct calls of the live fetch: the answers of the provider to the      *)
(* queries, the order in which the workers complete and the number of      *)
(* workers that complete before the results are collected are the argument *)
(***************************************************************************)
FetchInputs ==
    {[responses |-> r, completed |-> c, ready |-> n] :
        r \in [Queries -> Responses], c \in CompletionOrders, n \in 0..NumQueries}

CallFetchAllNewsParallel ==
    /\ input \in FetchInputs
    /\ \E order \in YieldOrders(input.completed, input.ready) :
          Returns("fetch_all_news_parallel",
                  [batch |-> fetch_all_news_parallel(input.responses, order), yielded |-> order])

InitFetch ==
    /\ archive = <<>>
    /\ NoRunYet
    /\ input \in FetchInputs
    /\ output = NoOutput

NextFetch == CallFetchAllNewsParallel

SpecFetch == InitFetch /\ [][NextFetch]_vars

(***************************************************************************)
(* The executive summary of the page.  all_news_sources, the digests of    *)
(* the articles picked for the summary, is the argument, with what the     *)
(* language model answers to the calls made of it.  A text is a list of    *)
(* pieces: words, and citations "[n]".                                     *)
(***************************************************************************)
\* longest list of digests handed to the summary
MaxSources == 2

Words(t) == [text |-> t]
Cite(n) == [cite |-> n]
IsCite(piece) == "cite" \in DOMAIN piece

\* the digest of an article, as the page prepares it for the prompt
Digest(title, description, url, source) ==
    [title |-> title, description |-> description, url |-> url,
     date |-> "December 05, 2025", source |-> source]

S1 == Digest("Netflix buys WBD", "Board confirms Netflix WBD deal", "https://a.com/?p=1&x=2", "CNN")
S2 == Digest("FTC review of Paramount hostile bid", "", "https://b.com/n/2", "Reuters")

SummarySources == UNION {[1..n -> {S1, S2}] : n \in 0..MaxSources}

\* html.escape(str(text)) of safe_escape
RECURSIVE html_escape(_)
html_escape(text) ==
    IF text = "" THEN ""
    ELSE LET c == CharAt(text, 1)
             e == CASE c = "&" -> "&amp;"
                    [] c = "<" -> "&lt;"
                    [] c = ">" -> "&gt;"
                    [] c = "\"" -> "&quot;"
                    [] c = "'" -> "&#x27;"
                    [] OTHER -> c
         IN  e \o html_escape(From(text, 2))

safe_escape(text) == IF text = None THEN "" ELSE html_escape(text)

\* source_urls = {i: a['url'] for i, a in enumerate(all_news_sources, 1)}
SourceUrls(sources) == [i \in 1..Len(sources) |-> sources[i].url]

\* text.replace("[num]", '<sup><a href="url" ...>[num]</a></sup>') for the nums given:
\* a citation of one of them becomes a link to urls.get(num, "#")
LinkCitations(content, nums, urls) ==
    [i \in 1..Len(content) |->
        IF IsCite(content[i]) /\ content[i].cite \in nums
        THEN [cite |-> content[i].cite,
              href |-> safe_escape(IF content[i].cite \in DOMAIN urls
                                   THEN urls[content[i].cite] ELSE "#")]
        ELSE content[i]]

\* format_paragraph_with_citations of format_summary_html
format_paragraph_with_citations(para, urls) == LinkCitations(para.content, para.citations, urls)

format_summary_html(summary, urls) ==
    <<format_paragraph_with_citations(summary.recent_developments, urls),
      format_paragraph_with_citations(summary.regulatory_status, urls),
      format_paragraph_with_citations(summary.deal_comparison, urls)>>

\* an ExecutiveSummary as the language model may write it: it cites the first source,
\* a second and a third one, which the list may hold or not, and a source it does not
\* list among its citations
WrittenSummary ==
    [recent_developments |->
         [content |-> <<Words("Netflix raised its offer to $30 per share"), Cite(1)>>,
          citations |-> {1}],
     regulatory_status |->
         [content |-> <<Words("The FTC opened a review"), Cite(2), Cite(3)>>,
          citations |-> {2, 3}],
     deal_comparison |->
         [content |-> <<Words("Terms not disclosed in available reporting"), Cite(1)>>,
          citations |-> {}]]

\* a free text as the language model may write it: paragraphs, one of them empty
WrittenText ==
    <<<<Words("Netflix raised its offer to $30 per share"), Cite(1)>>,
      <<>>,
      <<Words("The FTC opened a review"), Cite(3)>>>>

\* what the language model may answer to the call of generate_structured_summary: a
\* response that meets the schema, a response that does not, or an exception of the
\* client (no key, quota, network, blocked response)
StructuredAnswers ==
    {[kind |-> "valid", summary |-> WrittenSummary], [kind |-> "invalid"], [kind |-> "raises"]}

\* what it may answer to the call of generate_fallback_summary
TextAnswers == {[kind |-> "text", text |-> WrittenText], [kind |-> "raises"]}

\* what a summary function hands to the page
Html(paragraphs) == [raised |-> FALSE, html |-> paragraphs]
RuntimeError == [raised |-> TRUE, html |-> <<>>]

\* generate_structured_summary: the model is called with the prompt and the schema,
\* and its response is validated against ExecutiveSummary
generate_structured_summary(news_articles, urls, answer) ==
    IF answer.kind = "valid" THEN Html(format_summary_html(answer.summary, urls))
    ELSE RuntimeError

\* generate_fallback_summary: the model is called with a plain prompt; every "[num]"
\* of its text with num in source_urls becomes a link, and the text is split into its
\* non-empty paragraphs
generate_fallback_summary(news_articles, urls, answer) ==
    IF answer.kind = "text"
    THEN Html(SelectSeq([i \in 1..Len(answer.text) |->
                            LinkCitations(answer.text[i], DOMAIN urls, urls)],
                        LAMBDA para : para # <<>>))
    ELSE RuntimeError

\* the messages the page shows in place of a summary
SummaryError == <<<<Words("Summary generation encountered an error. Please refresh to try again.")>>>>
SummaryUnavailable == <<<<Words("AI summary unavailable. Please configure Gemini API key.")>>>>
NoArticles == <<<<Words("No articles available for summary.")>>>>

SummaryInputs ==
    {[gemini_available |-> g, sources |-> src, structured |-> a1, fallback |-> a2] :
        g \in BOOLEAN, src \in SummarySources, a1 \in StructuredAnswers, a2 \in TextAnswers}

\* the summary step has the language model called model_calls times so far, holds
\* result when a summary function returned or raised, and has shown on the page
SummaryStep(op, result, model_calls, shown) ==
    Returns(op, [result |-> result, model_calls |-> model_calls, shown |-> shown])

\* "if GEMINI_AVAILABLE and articles:" holds, and generate_structured_summary is called
CallGenerateStructuredSummary ==
    /\ input \in SummaryInputs /\ output = NoOutput
    /\ input.gemini_available /\ input.sources # <<>>
    /\ SummaryStep("generate_structured_summary",
                   generate_structured_summary(input.sources, SourceUrls(input.sources),
                                               input.structured),
                   1, <<>>)

\* "except Exception: summary_html = generate_fallback_summary(...)"
CallGenerateFallbackSummary ==
    /\ output.op = "generate_structured_summary" /\ output.value.result.raised
    /\ SummaryStep("generate_fallback_summary",
                   generate_fallback_summary(input.sources, SourceUrls(input.sources),
                                             input.fallback),
                   output.value.model_calls + 1, <<>>)

\* st.markdown(summary_html) with the summary of the function that returned one
ShowSummary ==
    /\ output.op \in {"generate_structured_summary", "generate_fallback_summary"}
    /\ ~output.value.result.raised
    /\ SummaryStep("show_summary", output.value.result, output.value.model_calls,
                   output.value.result.html)

\* the outer "except Exception": the fallback raised as well
ShowSummaryError ==
    /\ output.op = "generate_fallback_summary" /\ output.value.result.raised
    /\ SummaryStep("show_error", output.value.result, output.value.model_calls, SummaryError)

\* the else branch: no client of the language model, or no article
ShowNoSummary ==
    /\ input \in SummaryInputs /\ output = NoOutput
    /\ ~(input.gemini_available /\ input.sources # <<>>)
    /\ SummaryStep("show_message", Html(<<>>), 0,
                   IF ~input.gemini_available THEN SummaryUnavailable ELSE NoArticles)

InitSummary ==
    /\ archive = <<>>
    /\ NoRunYet
    /\ input \in SummaryInputs
    /\ output = NoOutput

NextSummary ==
    \/ CallGenerateStructuredSummary
    \/ CallGenerateFallbackSummary
    \/ ShowSummary
    \/ ShowSummaryError
    \/ ShowNoSummary

SpecSummary == InitSummary /\ [][NextSummary]_vars

(***************************************************************************)
(* One pass of load_all_data from the fetch to the deduplication, for a    *)
(* given content of the archive, given answers of the provider and a given *)
(* order in which the results of the workers are collected                 *)
(***************************************************************************)
\* answers of the provider with articles of several outlets on one story: the same
\* URL path under two headlines of two tier-1 sources, and a tier-2 headline that
\* differs from the first by a character
StoryResponses ==
    {[kind |-> "success", results |-> r] : r \in {<<D1>>, <<D4>>, <<D2, D6>>}}

PassInputs ==
    {[archived |-> a, responses |-> r, order |-> o] :
        a \in {<<>>} \cup InitialArchives,
        r \in [Queries -> Responses \cup StoryResponses],
        o \in CompletionOrders}

\* new_articles, all_articles, relevant and unique of load_all_data
Deduplicated(records, batch) ==
    deduplicate_articles(Relevant(Merge(records, NewArticles(records, batch))))

CallLoadAllData ==
    /\ input \in PassInputs
    /\ Returns("load_all_data",
               [fresh |-> fetch_all_news_parallel(input.responses, input.order),
                unique |-> Deduplicated(input.archived,
                                        fetch_all_news_parallel(input.responses, input.order))])

InitPass ==
    /\ archive = <<>>
    /\ NoRunYet
    /\ input \in PassInputs
    /\ output = NoOutput

NextPass == CallLoadAllData

SpecPass == InitPass /\ [][NextPass]_vars

(***************************************************************************)
(* Properties of the archive and of the output                             *)
(***************************************************************************)
\* no two records of the list hold the same link
UniqueLinks(records) ==
    \A i, j \in 1..Len(records) : records[i].link = records[j].link => i = j

\* a is the beginning of b
IsPrefix(a, b) == Len(a) <= Len(b) /\ SubSeq(b, 1, Len(a)) = a

\* the step in which the run of session s merges and saves
MergeStep(s) == pc[s] = "merge" /\ pc'[s] = "filter"

\* the step in which the run of session s filters and returns
ReturnStep(s) == pc[s] = "filter" /\ pc'[s] = "idle"

\* C1: the 'articles' list that a run of load_all_data returns holds no two articles
\* with the same link, whatever the archive holds and whatever was fetched.
C1_OutputLinksUnique == UniqueLinks(returned.articles)

\* C2: when runs do not overlap, a run leaves the links of the archive unique if they
\* were unique before it, whether its fetch, its reading of the archive or its append
\* fails or not.
C2_SequentialRunsKeepLinksUnique == [][UniqueLinks(archive) => UniqueLinks(archive')]_vars

\* C3: a run that has read the archive leaves the links of the archive unique if they
\* were unique before its append, also when another run has read the archive and
\* appended in between: a link fetched by both runs is appended at most once.
C3_OverlappingRunsKeepLinksUnique ==
    [][\A s \in Sessions :
          MergeStep(s) /\ read_outcome[s] = "ok" /\ UniqueLinks(archive)
              => UniqueLinks(archive')]_vars

\* C4: the only write to the archive is an append: every record of the archive stays
\* in it, unchanged and at its position, in every step of every run.
C4_ArchiveAppendOnly == [][IsPrefix(archive, archive')]_vars

\* a run has appended records behind those it had read
C4_Witness ==
    \E s \in Sessions :
        /\ pc[s] = "filter" /\ saved_count[s] > 0
        /\ Len(archived[s]) > 0 /\ Len(archive) > Len(archived[s])

(***************************************************************************)
(* Properties of the merge                                                 *)
(***************************************************************************)
\* the fetched articles whose link is the link of no record read from the archive,
\* in the order of their arrival
NotYetArchived(read, fetched) ==
    SelectSeq(fetched, LAMBDA a : \A i \in 1..Len(read) : read[i].link # a.link)

\* the records a step has put behind the archive
Appended == SubSeq(archive', Len(archive) + 1, Len(archive'))

\* C5: in a run that has opened the archive and whose append succeeds, the records
\* appended are exactly the fetched articles whose link was not among the links read,
\* relevant or not, saved_count is their number, and the append comes before the
\* filtering (it is made by the merge step, from which the run goes on to filter).
C5_AppendedIffFetchedAndNew ==
    [][\A s \in Sessions :
          MergeStep(s) /\ worksheet[s] /\ ~append_failed'[s]
              => /\ IsPrefix(archive, archive')
                 /\ Appended = Rows(NotYetArchived(archived[s], fresh[s]))
                 /\ saved_count'[s] = Len(Appended)]_vars

\* a run has appended an article that does not pass the relevance gate, and is about
\* to filter
C5_Witness ==
    \E s \in Sessions :
        /\ pc[s] = "filter" /\ worksheet[s] /\ ~append_failed[s] /\ saved_count[s] > 0
        /\ \E i \in 1..Len(new_articles[s]) :
              /\ ~is_relevant_article_of[new_articles[s][i]]
              /\ \E k \in 1..Len(archive) : archive[k] = ToRow(new_articles[s][i])

\* C6: the merged list of a run is the records read from the archive, in their order,
\* followed by exactly the fetched articles whose link is not a non-empty link of
\* those records, in the order of their arrival.
C6_MergedIsArchivedThenNew ==
    \A s \in Sessions :
        pc[s] = "filter" =>
            all_articles[s] =
                archived[s] \o SelectSeq(fresh[s], LAMBDA a :
                                  ~\E i \in 1..Len(archived[s]) :
                                      /\ archived[s][i].link # ""
                                      /\ archived[s][i].link = a.link)

\* a run has merged records of the archive with a fetched batch of which it kept
\* some and dropped some
C6_Witness ==
    \E s \in Sessions :
        /\ pc[s] = "filter" /\ Len(archived[s]) > 0
        /\ Len(new_articles[s]) > 0 /\ Len(new_articles[s]) < Len(fresh[s])

\* C7: two merges of the same fetched batch into the same records read give the same
\* new_articles; and a merge of the batch into the records left by a merge of the same
\* batch whose append was kept finds nothing new.
C7_MergeIdempotent ==
    \A s, t \in Sessions :
        pc[s] = "filter" /\ pc[t] = "filter" /\ fresh[s] = fresh[t] =>
            /\ archived[t] = archived[s] => new_articles[t] = new_articles[s]
            /\ archived[t] = archived[s] \o Rows(new_articles[s]) => new_articles[t] = <<>>

\* a second run has read the archive as the append of a first run left it and has
\* merged the same batch into it
C7_Witness ==
    \E s, t \in Sessions :
        /\ s # t /\ pc[s] = "filter" /\ pc[t] = "filter"
        /\ fresh[s] = fresh[t] /\ new_articles[s] # <<>> /\ saved_count[s] > 0
        /\ archived[t] = archived[s] \o Rows(new_articles[s])

(***************************************************************************)
(* Properties of the handling of failures                                  *)
(***************************************************************************)
\* what the run of session s would hand to the page had its append succeeded
WithAppendDone(s) ==
    IF RunRaises(Merge(archived[s], NewArticles(archived[s], fresh[s]))) THEN FallbackData
    ELSE RunResult(Merge(archived[s], NewArticles(archived[s], fresh[s])), archived[s],
                   fresh[s], NewArticles(archived[s], fresh[s]),
                   Len(NewArticles(archived[s], fresh[s])), archive_error[s], api_error[s])

\* the result r with saved_count 0
SavingNothing(r) == IF r = FallbackData THEN r ELSE [r EXCEPT !.saved_count = 0]

\* C8: when append_rows fails in a run, the run goes on: the archive is unchanged,
\* saved_count is 0, and the run returns what it would return after a successful
\* append, the article list and every other counter included.
C8_AppendFailureSwallowed ==
    [][\A s \in Sessions :
          /\ MergeStep(s) /\ append_failed'[s] => archive' = archive /\ saved_count'[s] = 0
          /\ ReturnStep(s) /\ append_failed[s] => returned' = SavingNothing(WithAppendDone(s))
      ]_vars

\* the append of a run has failed on a batch of new articles that the run goes on to
\* filter
C8_Witness ==
    \E s \in Sessions :
        /\ pc[s] = "filter" /\ append_failed[s]
        /\ new_articles[s] # <<>> /\ Outcome(s) # FallbackData

\* the live fetch of the run of s failed: it raised, or every query failed
FetchFailed(s) == api_error[s] # None \/ queries_failed[s] = NumQueries

\* the archive read of the run of s failed
ReadFailed(s) == read_outcome[s] # "ok"

\* the output of a run from the records of the archive alone
ArchiveOnly(records) ==
    Annotated(SortedNewestFirst(deduplicate_articles(Relevant(records))))

\* C9: whether the live fetch fails or not and whether the archive read fails or not,
\* a run returns its result without raising; after a failed fetch api_fetched is 0
\* and the output comes from the archive alone; after a failed read archived_count
\* is 0 and archive_error is set.
C9_DegradedRunsReturn ==
    \A s \in Sessions :
        pc[s] = "filter" =>
            /\ Outcome(s) # FallbackData
            /\ FetchFailed(s) => /\ Outcome(s).api_fetched = 0
                                 /\ Outcome(s).articles = ArchiveOnly(archived[s])
            /\ ReadFailed(s) => /\ Outcome(s).archived_count = 0
                                /\ Outcome(s).archive_error # None

\* C10: every failure of a live query, of the archive read or of the append is
\* recovered inside the run, and leaves a diagnostic string in api_error or
\* archive_error of the result.
C10_FailuresLeaveDiagnostic ==
    \A s \in Sessions :
        pc[s] = "filter" =>
            /\ queries_failed[s] > 0 => api_error[s] # None
            /\ ReadFailed(s) => archive_error[s] # None
            /\ append_failed[s] => api_error[s] # None \/ archive_error[s] # None

(***************************************************************************)
(* Properties of the pattern classifier                                    *)
(***************************************************************************)
\* the lower-cased text of an article: its title, a blank, its description
TextOf(a) == Lower(OrEmpty(a.title)) \o " " \o Lower(OrEmpty(a.description))

\* the four conditions of the relevance gate, each stated on its own
SourceIsBlocked(a) ==
    \E k \in 1..Len(BLOCKED_SOURCES) : Contains(Lower(OrEmpty(a.source_id)), BLOCKED_SOURCES[k])
SourceIsTrusted(a) ==
    \E k \in 1..Len(TRUSTED_SOURCE_PATTERNS) :
        Contains(Lower(OrEmpty(a.source_id)), TRUSTED_SOURCE_PATTERNS[k])
MatchesIrrelevant(a) ==
    \E k \in 1..Len(IRRELEVANT_PATTERNS) : re_search(IRRELEVANT_PATTERNS[k], TextOf(a))
MatchesDealContext(a) ==
    \E k \in 1..Len(MUST_CONTAIN_DEAL_CONTEXT) : re_search(MUST_CONTAIN_DEAL_CONTEXT[k], TextOf(a))
FallbackHolds(a) ==
    /\ Contains(TextOf(a), "netflix")
    /\ Contains(TextOf(a), "warner") \/ Contains(TextOf(a), "wbd")
    /\ \E k \in 1..Len(ACQUISITION_WORDS) : Contains(TextOf(a), ACQUISITION_WORDS[k])

\* C11: is_relevant_article returns true exactly when the source is not blocked, the
\* source is trusted, no irrelevance pattern matches and a deal-context pattern matches
\* or the fallback heuristic holds; an article that matches an irrelevance pattern is
\* rejected whatever its source and whatever else it matches.
C11_RelevanceGate ==
    output.op = "is_relevant_article" =>
        /\ output.value <=> /\ ~SourceIsBlocked(input)
                            /\ SourceIsTrusted(input)
                            /\ ~MatchesIrrelevant(input)
                            /\ MatchesDealContext(input) \/ FallbackHolds(input)
        /\ MatchesIrrelevant(input) => output.value = FALSE

\* an article of a trusted source that matches a deal-context pattern and an
\* irrelevance pattern was rejected
C11_Witness ==
    /\ output.op = "is_relevant_article" /\ output.value = FALSE
    /\ ~SourceIsBlocked(input) /\ SourceIsTrusted(input)
    /\ MatchesIrrelevant(input) /\ MatchesDealContext(input)

\* the text categorize_article searches: title and description as an f-string prints
\* them, lower-cased
CombinedOf(a) == Lower(Str(a.title) \o " " \o Str(a.description))

\* the text of the article holds a word of the list
HasWordOf(a, words) == \E k \in 1..Len(words) : Contains(CombinedOf(a), words[k])

\* C12: categorize_article returns exactly one of deal, regulatory, bids and analysis
\* for every article, by the fixed priority regulatory, then bids, then analysis, deal
\* being the default; a text with a regulatory and a bids keyword is regulatory.
C12_CategoryPriority ==
    output.op = "categorize_article" =>
        /\ output.value \in {"deal", "regulatory", "bids", "analysis"}
        /\ output.value = "regulatory" <=> HasWordOf(input, REGULATORY_WORDS)
        /\ output.value = "bids" <=>
               ~HasWordOf(input, REGULATORY_WORDS) /\ HasWordOf(input, BIDS_WORDS)
        /\ output.value = "analysis" <=>
               /\ ~HasWordOf(input, REGULATORY_WORDS) /\ ~HasWordOf(input, BIDS_WORDS)
               /\ HasWordOf(input, ANALYSIS_WORDS)
        /\ output.value = "deal" <=>
               /\ ~HasWordOf(input, REGULATORY_WORDS) /\ ~HasWordOf(input, BIDS_WORDS)
               /\ ~HasWordOf(input, ANALYSIS_WORDS)

\* an article with a regulatory and a bids keyword was classified regulatory
C12_Witness ==
    /\ output.op = "categorize_article" /\ output.value = "regulatory"
    /\ HasWordOf(input, REGULATORY_WORDS) /\ HasWordOf(input, BIDS_WORDS)

\* the source of the article holds a tier-1 name
SourceIsTier1(a) ==
    \E k \in 1..Len(TIER1_SOURCES) : Contains(Lower(OrEmpty(a.source_id)), TIER1_SOURCES[k])

\* the text of the article, title plus description, holds a high-signal keyword
TextHasImportanceKeyword(a) ==
    \E k \in 1..Len(IMPORTANCE_KEYWORDS) : Contains(TextOf(a), IMPORTANCE_KEYWORDS[k])

\* C13: the importance flag of an article is true if and only if its source is of
\* tier 1 or its text, title plus description, holds one of the high-signal keywords.
C13_ImportanceIffTierOrKeyword ==
    output.op = "is_high_importance" =>
        (output.value <=> SourceIsTier1(input) \/ TextHasImportanceKeyword(input))

\* the articles with the title and the description of a and any source, link and date
SameText(a) ==
    {[a EXCEPT !.source_id = src, !.link = l, !.pubDate = d] :
        src \in ClassifierSources,
        l \in {"https://a.com/n/1", "https://ftc.gov/n/2", None},
        d \in {"2025-12-05", "2025-12-06T09:00:00Z", None}}

\* C14 as stated: two articles with the same title and the same description get the
\* same category and the same importance flag from the loop of the pipeline that
\* categorizes, whatever their source_id, link and pubDate are.
C14_SameTextSameLabels ==
    output.op = "annotate" =>
        \A b \in SameText(input) :
            /\ Annotate(b).category = output.value.category
            /\ Annotate(b).important = output.value.important

\* C14 as amended: two articles with the same title and the same description get the
\* same category whatever their source_id, link and pubDate are, and the same
\* importance flag when their source_id is the same too.
C14_SameTextAndSourceSameLabels ==
    output.op = "annotate" =>
        \A b \in SameText(input) :
            /\ Annotate(b).category = output.value.category
            /\ b.source_id = input.source_id => Annotate(b).important = output.value.important

\* an article was labelled that has the text of an article of another source, and of
\* an article of its own source with another link and another date
C14_Witness ==
    /\ output.op = "annotate" /\ output.value.category = "regulatory"
    /\ \E b \in SameText(input) : b.source_id # input.source_id
    /\ \E b \in SameText(input) :
          b.source_id = input.source_id /\ b.link # input.link /\ b.pubDate # input.pubDate

\* the source of the article holds a tier-2 name
SourceIsTier2(a) ==
    \E k \in 1..Len(TIER2_SOURCES) : Contains(Lower(OrEmpty(a.source_id)), TIER2_SOURCES[k])

\* C15: get_source_tier of a source_id is 1 if the source_id holds, in any case of
\* letters, a tier-1 name, else 2 if it holds a tier-2 name, else 3; it is 3 for an
\* empty or missing source_id and 1 for a source that holds names of both lists.
C15_TierBySubstring ==
    output.op = "get_source_tier" =>
        /\ output.value = 1 <=> SourceIsTier1(input)
        /\ output.value = 2 <=> ~SourceIsTier1(input) /\ SourceIsTier2(input)
        /\ output.value = 3 <=> ~SourceIsTier1(input) /\ ~SourceIsTier2(input)
        /\ input.source_id \in {None, ""} => output.value = 3

\* a source that holds a tier-1 and a tier-2 name got tier 1
C15_Witness ==
    /\ output.op = "get_source_tier" /\ output.value = 1
    /\ SourceIsTier1(input) /\ SourceIsTier2(input)

(***************************************************************************)
(* Properties of the deduplicator                                          *)
(***************************************************************************)
\* C16: deduplicating the list that deduplicate_articles returned gives that list
\* again, the same articles in the same order, for every input list.
C16_DedupIdempotent ==
    output.op = "deduplicate_again" => output.value = deduplicate_articles(input)

\* a list that lost an article in the first pass and kept two was deduplicated twice
C16_Witness ==
    /\ output.op = "deduplicate_again"
    /\ Len(output.value) >= 2 /\ Len(output.value) < Len(input)

\* b is a with another source_id and nothing else changed, the title is not empty,
\* a is of tier 1 and b of tier 3
TierOneAndThreeCopies(a, b) ==
    /\ Truthy(a.title)
    /\ b = [a EXCEPT !.source_id = b.source_id]
    /\ get_source_tier(a.source_id) = 1 /\ get_source_tier(b.source_id) = 3

\* C17: when a list holds an article of a tier-1 source and its copy from a tier-3
\* source (same non-empty title, same link), in either order, the deduplicated list
\* does not hold the tier-3 copy; for the list of just the two it is the tier-1 copy.
C17_TierOneCopyWins ==
    output.op = "deduplicate_articles" =>
        \A i, j \in 1..Len(input) :
            TierOneAndThreeCopies(input[i], input[j]) =>
                /\ \A k \in 1..Len(output.value) : output.value[k] # input[j]
                /\ Len(input) = 2 => output.value = <<input[i]>>

\* a list with the tier-3 copy ahead of the tier-1 copy, and other articles, was
\* deduplicated
C17_Witness ==
    /\ output.op = "deduplicate_articles" /\ Len(input) = 3
    /\ \E i, j \in 1..Len(input) : j < i /\ TierOneAndThreeCopies(input[i], input[j])

(***************************************************************************)
(* Properties of the list and the counters a run returns                   *)
(***************************************************************************)
\* the pubDate of the article holds a date
HasDate(a) == Truthy(a.pubDate) /\ ParseIso(a.pubDate).ok

\* the date of a is later than the date of b: both hold a date and the one of a is
\* the later, or only a holds a date
Newer(a, b) ==
    /\ HasDate(a)
    /\ HasDate(b) => KeyLess(ParseIso(b.pubDate).key, ParseIso(a.pubDate).key, 1)

\* C18: a run returns its articles ordered by publish date, newest first, the
\* articles without a readable date behind all those with one, and no mix of date
\* formats in the input, with or without a time zone, makes the run fail.
C18_OutputNewestFirst ==
    returned # NoData =>
        /\ returned # FallbackData
        /\ \A i, j \in 1..Len(returned.articles) :
              i < j => ~Newer(returned.articles[j], returned.articles[i])

\* the number of articles of the list that pass the relevance gate
NumRelevant(articles) == Cardinality({i \in 1..Len(articles) : is_relevant_article_of[articles[i]]})

\* C19: the counters a run returns are: total_raw = archived_count + the number of new
\* articles; filtered_out = total_raw - the number of merged articles that pass the
\* gate; duplicates = that number - len(articles); so total_raw = filtered_out +
\* duplicates + len(articles), none of the three negative; new_count = the number of
\* new articles that pass the gate; api_fetched = the size of the fetched batch;
\* saved_count is 0 or the number of new articles.
C19_CountersMeetDefinitions ==
    [][\A s \in Sessions :
          ReturnStep(s) /\ returned' # FallbackData =>
              /\ returned'.archived_count = Len(archived[s])
              /\ returned'.total_raw =
                     returned'.archived_count + Len(NotYetArchived(archived[s], fresh[s]))
              /\ returned'.filtered_out = returned'.total_raw - NumRelevant(all_articles[s])
              /\ returned'.duplicates = NumRelevant(all_articles[s]) - Len(returned'.articles)
              /\ returned'.total_raw =
                     returned'.filtered_out + returned'.duplicates + Len(returned'.articles)
              /\ returned'.filtered_out >= 0 /\ returned'.duplicates >= 0
              /\ returned'.new_count = NumRelevant(NotYetArchived(archived[s], fresh[s]))
              /\ returned'.api_fetched = Len(fresh[s])
              /\ returned'.saved_count \in {0, Len(NotYetArchived(archived[s], fresh[s]))}
      ]_vars

\* a run returned articles after it filtered some out, dropped a duplicate and saved
\* new ones
C19_Witness ==
    /\ returned # NoData /\ returned # FallbackData
    /\ Len(returned.articles) > 0 /\ returned.filtered_out > 0
    /\ returned.duplicates > 0 /\ returned.saved_count > 0

(***************************************************************************)
(* Properties of the live fetch                                            *)
(***************************************************************************)
\* the articles the worker of query w returned
ResultsOf(w) == fetch_news_query(input.responses[w])

\* the links that some worker returned
LinksReturned ==
    UNION {{ResultsOf(w)[k].link : k \in 1..Len(ResultsOf(w))} : w \in Queries} \ {None, ""}

\* the workers whose results hold the link
WorkersWith(link) ==
    {w \in Queries : \E k \in 1..Len(ResultsOf(w)) : ResultsOf(w)[k].link = link}

\* the worker of ws that comes first in the order
FirstOf(order, ws) ==
    CHOOSE w \in ws : \A v \in ws :
        (CHOOSE i \in Queries : order[i] = w) <= (CHOOSE i \in Queries : order[i] = v)

\* the first article with the link among the results of worker w
InstanceFrom(w, link) ==
    ResultsOf(w)[CHOOSE k \in 1..Len(ResultsOf(w)) :
                    /\ ResultsOf(w)[k].link = link
                    /\ \A m \in 1..(k - 1) : ResultsOf(w)[m].link # link]

\* the batch holds exactly the links returned, each once, and no article without one
BatchHoldsEachLinkOnce(batch) ==
    /\ {batch[i].link : i \in 1..Len(batch)} = LinksReturned
    /\ UniqueLinks(batch)
    /\ \A i \in 1..Len(batch) : Truthy(batch[i].link)

\* C20 as stated: for fixed results of the queries the links of the batch are the same
\* for every order of completion of the workers, the batch holds each link once and
\* no article without a link, and for a link returned by several queries the article
\* kept is the one of the worker that completed first.
C20_FirstCompletedWins ==
    output.op = "fetch_all_news_parallel" =>
        /\ BatchHoldsEachLinkOnce(output.value.batch)
        /\ \A i \in 1..Len(output.value.batch) :
              output.value.batch[i] =
                  InstanceFrom(FirstOf(input.completed, WorkersWith(output.value.batch[i].link)),
                               output.value.batch[i].link)

\* C20 as amended: the links of the batch are the same for every order, each link is
\* held once and no article is without a link, and for a link returned by several
\* queries the article kept is the one of the worker whose result as_completed yields
\* first: the worker that completed first, unless several workers had completed
\* before the results were collected.
C20_FirstYieldedWins ==
    output.op = "fetch_all_news_parallel" =>
        /\ BatchHoldsEachLinkOnce(output.value.batch)
        /\ \A i \in 1..Len(output.value.batch) :
              /\ output.value.batch[i] =
                     InstanceFrom(FirstOf(output.value.yielded,
                                          WorkersWith(output.value.batch[i].link)),
                                  output.value.batch[i].link)
              /\ input.ready <= 1 =>
                     output.value.batch[i] =
                         InstanceFrom(FirstOf(input.completed,
                                              WorkersWith(output.value.batch[i].link)),
                                      output.value.batch[i].link)

\* two workers returned a link under different headlines, and the batch was collected
\* in an order that is not the order in which the workers completed
C20_Witness ==
    /\ output.op = "fetch_all_news_parallel"
    /\ output.value.yielded # input.completed
    /\ \E i \in 1..Len(output.value.batch) :
          \E v, w \in WorkersWith(output.value.batch[i].link) :
              InstanceFrom(v, output.value.batch[i].link)
                  # InstanceFrom(w, output.value.batch[i].link)

\* the queries of the batch that failed, and those that succeeded
FailedQueries == {w \in Queries : input.responses[w].kind # "success"}
SucceededQueries == Queries \ FailedQueries

\* the batch holds an article with the link
InBatch(batch, link) == \E i \in 1..Len(batch) : batch[i].link = link

\* C21: a query that times out, errors or gets a malformed response contributes no
\* article and does not abort the batch: every article with a link that another,
\* successful query returned is in the batch by its link, and every article of the
\* batch is one that a successful query returned.
C21_FailedQueryContributesNothing ==
    output.op = "fetch_all_news_parallel" =>
        /\ \A w \in SucceededQueries :
              \A k \in 1..Len(input.responses[w].results) :
                  Truthy(input.responses[w].results[k].link) =>
                      InBatch(output.value.batch, input.responses[w].results[k].link)
        /\ \A i \in 1..Len(output.value.batch) :
              \E w \in SucceededQueries :
                  \E k \in 1..Len(input.responses[w].results) :
                      input.responses[w].results[k] = output.value.batch[i]

\* the query that was yielded first failed, and a later one returned articles with a
\* link, which the batch holds
C21_Witness ==
    /\ output.op = "fetch_all_news_parallel"
    /\ output.value.yielded[1] \in FailedQueries
    /\ \E w \in SucceededQueries : Len(input.responses[w].results) > 1
    /\ Len(output.value.batch) > 1

(***************************************************************************)
(* Properties of the executive summary                                     *)
(***************************************************************************)
\* the summary step is over: the page shows a summary or a message
SummaryStepDone == output.op \in {"show_summary", "show_error", "show_message"}

\* the structured call of the summarization service failed
ServiceFailed ==
    /\ input.gemini_available /\ input.sources # <<>>
    /\ input.structured.kind # "valid"

\* the words of the paragraphs are taken from the digests: each is a title or a
\* description of one of the sources
BuiltFromSources(paragraphs) ==
    \A i \in 1..Len(paragraphs) :
        \A k \in 1..Len(paragraphs[i]) :
            ~IsCite(paragraphs[i][k]) =>
                \E n \in 1..Len(input.sources) :
                    paragraphs[i][k].text \in {input.sources[n].title, input.sources[n].description}

\* C22: when the structured call of the summarization service raises or returns an
\* invalid response, the summary step ends with a summary on the page that is built
\* from the top articles, and the language model was not called a second time.
C22_FallbackWithoutModel ==
    SummaryStepDone /\ ServiceFailed =>
        /\ output.op = "show_summary"
        /\ output.value.shown # <<>>
        /\ BuiltFromSources(output.value.shown)
        /\ output.value.model_calls = 1

(***************************************************************************)
(* Properties of the start and the end of a run                            *)
(***************************************************************************)
\* the step in which the script of session s enters load_all_data on a cache miss
StartStep(s) == pc[s] = "idle" /\ pc'[s] = "load"

\* C23: a run is started only by the expiry of the cached result or by the Refresh
\* Data button: while the cache holds a result that has not expired, a script run
\* that is not a refresh, the first one of a new session included, starts no run,
\* and so fetches nothing and appends nothing.
C23_RunsStartOnExpiryOrRefresh ==
    [][\A s \in Sessions : StartStep(s) /\ cache # NoData => Refresh(s)]_vars

(***************************************************************************)
(* The greedy deduplication, stated over the positions of the input        *)
(***************************************************************************)
\* the tier of the article at position i of the list
TierAt(articles, i) == get_source_tier(articles[i].source_id)

\* the positions of the list in the order of a stable sort by tier: tiers ascend, and
\* positions of the same tier keep their order
TierOrder(articles) ==
    CHOOSE p \in [1..Len(articles) -> 1..Len(articles)] :
        /\ \A i, j \in 1..Len(articles) : i # j => p[i] # p[j]
        /\ \A i, j \in 1..Len(articles) :
              i < j => \/ TierAt(articles, p[i]) < TierAt(articles, p[j])
                       \/ TierAt(articles, p[i]) = TierAt(articles, p[j]) /\ p[i] < p[j]

TierSorted(articles) == [i \in 1..Len(articles) |-> articles[TierOrder(articles)[i]]]

\* article l is a duplicate of article e by its title or by the path of its URL
DuplicateOf(l, e) ==
    \/ RatioGT(title_similarity(l.title, e.title), TitleThreshold[1], TitleThreshold[2])
    \/ RatioGT(url_path_similarity(l.link, e.link), UrlThreshold[1], UrlThreshold[2])

\* the positions of the sorted list that a greedy walk keeps: a position is kept if
\* and only if its article has a title and is no duplicate of an article kept before
GreedyKept(sorted) ==
    CHOOSE K \in SUBSET (1..Len(sorted)) :
        \A k \in 1..Len(sorted) :
            k \in K <=> /\ Truthy(sorted[k].title)
                        /\ \A e \in K : e < k => ~DuplicateOf(sorted[k], sorted[e])

\* the articles at the positions K of the list, in the order of the list
RECURSIVE Pick(_, _, _)
Pick(list, K, k) ==
    IF k > Len(list) THEN <<>>
    ELSE (IF k \in K THEN <<list[k]>> ELSE <<>>) \o Pick(list, K, k + 1)

\* C24: deduplicate_articles returns what the greedy reference returns: the input is
\* stable-sorted ascending by source tier, the articles without a title are dropped,
\* and a candidate is kept if and only if no article kept before it has a title more
\* than 0.75 similar or a URL path more than 0.85 similar; the output is a
\* subsequence of the tier-sorted input.
C24_GreedyReference ==
    output.op = "deduplicate_articles" =>
        output.value = Pick(TierSorted(input), GreedyKept(TierSorted(input)), 1)

\* the sort moved an article, and an article with a title was dropped for the path
\* of its URL alone: its title is similar to no title of the output
C24_Witness ==
    /\ output.op = "deduplicate_articles"
    /\ \E n \in 1..Len(input) :
          /\ Truthy(input[n].title)
          /\ \A k \in 1..Len(output.value) :
                /\ ~RatioGT(title_similarity(input[n].title, output.value[k].title),
                            TitleThreshold[1], TitleThreshold[2])
                /\ input[n] # output.value[k]
    /\ TierSorted(input) # input

(***************************************************************************)
(* Properties of the derived fields                                        *)
(***************************************************************************)
Categories == {"deal", "regulatory", "bids", "analysis"}

\* the names under which an article could carry the tier of its source
TierFields == {"tier", "source_tier", "sourceTier"}

\* C25: every article of the list a run returns carries a category of the four, a
\* boolean importance flag, and the tier of its source, which is 1, 2 or 3 and equals
\* get_source_tier of its source_id.
C25_ArticlesCarryDerivedFields ==
    \A i \in 1..Len(returned.articles) :
        /\ "category" \in DOMAIN returned.articles[i]
        /\ returned.articles[i].category \in Categories
        /\ "important" \in DOMAIN returned.articles[i]
        /\ returned.articles[i].important \in BOOLEAN
        /\ \E f \in TierFields :
              /\ f \in DOMAIN returned.articles[i]
              /\ returned.articles[i][f] \in {1, 2, 3}
              /\ returned.articles[i][f] = get_source_tier(returned.articles[i].source_id)

(***************************************************************************)
(* Properties of a pass under the orders of collection                     *)
(***************************************************************************)
\* the articles of a list, as a set
ArticlesOf(list) == {list[i] : i \in 1..Len(list)}

\* C26: for a fixed archive and fixed results of the queries, the set of articles
\* left after merge, relevance filter and deduplication is the same for every order
\* in which the workers complete.
C26_OutputSetIndependentOfOrder ==
    output.op = "load_all_data" =>
        \A o \in CompletionOrders :
            ArticlesOf(Deduplicated(input.archived,
                                    fetch_all_news_parallel(input.responses, o)))
                = ArticlesOf(output.value.unique)

(***************************************************************************)
(* Properties of the enrichment                                            *)
(***************************************************************************)
RawFields == {Fields[i] : i \in 1..Len(Fields)}

\* the article without the fields that the annotation loop adds
Raw(a) == [f \in RawFields |-> a[f]]

\* the list the run of s hands to the annotation loop, before the sort
UniqueOf(s) == deduplicate_articles(Relevant(all_articles[s]))

NoLaterDuplicate(list) ==
    \A e, l \in 1..Len(list) : e < l => ~DuplicateOf(list[l], list[e])

\* the articles of the list without the fields of the annotation
RawList(list) == [i \in 1..Len(list) |-> Raw(list[i])]

\* the articles of the deduplicated list that the final list holds, in the order of
\* the deduplicated list, which is the order of the tiers
InTierOrder(final, unique) == SelectSeq(unique, LAMBDA a : a \in ArticlesOf(RawList(final)))

\* C29: in the list deduplicate_articles returns, no article has a title more than
\* 0.75 similar to the title, or a URL path more than 0.85 similar to the URL path,
\* of an article before it; the list a run returns after the sort by date holds the
\* same articles, and taken in the order of the tiers they are pairwise no duplicates
\* either.
C29_NoArticleDuplicatesAnEarlier ==
    /\ output.op = "deduplicate_articles" => NoLaterDuplicate(output.value)
    /\ output.op = "sort_and_annotate" =>
          /\ InTierOrder(output.value, deduplicate_articles(input)) = deduplicate_articles(input)
          /\ Len(output.value) = Len(deduplicate_articles(input))
          /\ NoLaterDuplicate(InTierOrder(output.value, deduplicate_articles(input)))

\* of three articles one was dropped, and the sort by date put the article that
\* comes second by tier in front
C29_Witness ==
    /\ output.op = "sort_and_annotate"
    /\ Len(output.value) = 2 /\ Len(input) = 3
    /\ Raw(output.value[1]) # deduplicate_articles(input)[1]

\* the article is in the list
Kept(a, list) == \E k \in 1..Len(list) : list[k] = a

\* the number of times the list holds the article
Copies(a, list) == Cardinality({n \in 1..Len(list) : list[n] = a})

\* a kept article that stands for the dropped one: its source is of the same tier or
\* a better one, and the dropped article is a duplicate of it
HasRepresentative(dropped, list) ==
    \E k \in 1..Len(list) :
        /\ get_source_tier(list[k].source_id) <= get_source_tier(dropped.source_id)
        /\ DuplicateOf(dropped, list[k])

\* C30: every article with a title that deduplicate_articles drops, a second copy of
\* a kept article included, has a representative in the output: a kept article of a
\* source of the same or a better tier, with a title more than 0.75 similar or a URL
\* path more than 0.85 similar to its own; none is represented by sources of less
\* trust only.
C30_DroppedHasRepresentative ==
    output.op = "deduplicate_articles" =>
        \A n \in 1..Len(input) :
            /\ Truthy(input[n].title)
            /\ ~Kept(input[n], output.value) \/ Copies(input[n], input) > 1
            => HasRepresentative(input[n], output.value)

\* an article ahead of its representative in the input was dropped for an article of
\* a better tier, and another article was kept beside it
C30_Witness ==
    /\ output.op = "deduplicate_articles" /\ Len(output.value) >= 2
    /\ \E n, m \in 1..Len(input) :
          /\ n < m
          /\ Truthy(input[n].title) /\ ~Kept(input[n], output.value)
          /\ Kept(input[m], output.value)
          /\ DuplicateOf(input[n], input[m])
          /\ get_source_tier(input[m].source_id) < get_source_tier(input[n].source_id)
=============================================================================
